---- MODULE Spec2Model ----
(***************************************************************************)
(* A model of the command-line argument engine `Cli` of src/src/cli.rs:    *)
(* the lexer (tokenize), the occurrence index (opt_store), the known-      *)
(* argument ledger (known_args) and the query surface.                     *)
(*                                                                         *)
(* Strings are sequences of one-character strings, so that the lexer's     *)
(* prefix tests, its split on '=' and its bundle splitting are computed.   *)
(* Slot positions and original argument indices are 0-based as in the      *)
(* code; `Get(v, i)` reads the i-th element of a 0-based vector.           *)
(***************************************************************************)
EXTENDS Integers, Sequences, FiniteSets, TLC

VARIABLES
    argv,   \* the raw argument list handed to tokenize (program name first)
    cli,    \* the struct Cli: tokens, opt_store, known_args, help, asking_for_help, threshold
    last,   \* the last public call made on the engine, with its outcome
    queried \* the flag/option descriptors the caller has queried so far

vars == <<argv, cli, last, queried>>

-----------------------------------------------------------------------------
(* Bounds of the model *)

MaxArgs == 3        \* arguments after the program name
MaxLedger == 2      \* declarations a session keeps in the ledger
MaxN == 1           \* the largest cap n handed to check_flag_n / check_option_n

-----------------------------------------------------------------------------
(* Strings *)

starts_with(s, prefix) ==
    /\ Len(s) >= Len(prefix)
    /\ SubSeq(s, 1, Len(prefix)) = prefix

\* variant: the text before and after the last '='
rsplit_once(s, ch) ==
    IF \E k \in 1..Len(s) : s[k] = ch
    THEN LET k == CHOOSE k \in 1..Len(s) : s[k] = ch /\ \A j \in (k+1)..Len(s) : s[j] # ch
         IN  [some |-> TRUE, opt |-> SubSeq(s, 1, k-1), val |-> SubSeq(s, k+1, Len(s))]
    ELSE [some |-> FALSE, opt |-> <<>>, val |-> <<>>]

\* str::split_once('='): the text before and after the first '=', when there is one
split_once(s, ch) ==
    IF \E k \in 1..Len(s) : s[k] = ch
    THEN LET k == CHOOSE k \in 1..Len(s) : s[k] = ch /\ \A j \in 1..(k-1) : s[j] # ch
         IN  [some |-> TRUE, opt |-> SubSeq(s, 1, k-1), val |-> SubSeq(s, k+1, Len(s))]
    ELSE [some |-> FALSE, opt |-> <<>>, val |-> <<>>]

\* mod symbol
SWITCH == <<"-">>
FLAG == <<"-", "-">>

\* Option<String>
NoneStr == [some |-> FALSE, v |-> <<>>]
SomeStr(s) == [some |-> TRUE, v |-> s]

\* 0-based read of a Vec
Get(v, i) == v[i + 1]

-----------------------------------------------------------------------------
(* enum Tag, enum Token *)

Tag_Switch(s) == [t |-> "Switch", n |-> s]
Tag_Flag(s) == [t |-> "Flag", n |-> s]

UnattachedArgument(i, s) == [kind |-> "UnattachedArgument", i |-> i, s |-> s]
AttachedArgument(i, s) == [kind |-> "AttachedArgument", i |-> i, s |-> s]
Token_Flag(i) == [kind |-> "Flag", i |-> i, s |-> <<>>]
Token_Switch(i, c) == [kind |-> "Switch", i |-> i, s |-> <<c>>]
EmptySwitch(i) == [kind |-> "EmptySwitch", i |-> i, s |-> <<>>]
\* variant: an argument after the terminator kept as an ordinary word
Ignore_as_word(i, s) == [kind |-> "UnattachedArgument", i |-> i, s |-> s]
Ignore(i, s) == [kind |-> "Ignore", i |-> i, s |-> s]
Terminator(i) == [kind |-> "Terminator", i |-> i, s |-> <<>>]
\* an emptied slot (Option<Token>::None)
None == [kind |-> "None", i |-> 0, s |-> <<>>]

\* Token::take_str is only defined on the three text-carrying tokens
HasStr(t) == t.kind \in {"UnattachedArgument", "AttachedArgument", "Ignore"}

-----------------------------------------------------------------------------
(* Cli::tokenize *)

EmptyStore == [t \in {} |-> <<>>]

\* variant: a new position put at the front of the entry
StorePushFront(store, tag, pos) ==
    IF tag \in DOMAIN store
    THEN [store EXCEPT ![tag] = <<pos>> \o @]
    ELSE [t \in DOMAIN store \cup {tag} |-> IF t = tag THEN <<pos>> ELSE store[t]]

\* store.entry(tag).or_insert(Vec::new()).push(pos)
StorePush(store, tag, pos) ==
    IF tag \in DOMAIN store
    THEN [store EXCEPT ![tag] = Append(@, pos)]
    ELSE [t \in DOMAIN store \cup {tag} |-> IF t = tag THEN <<pos>> ELSE store[t]]

\* variant: the rest of a bundle registered under the character before it
RECURSIVE LexBundleShifted(_, _, _, _)
LexBundleShifted(acc, i, chars, k) ==
    IF k > Len(chars) THEN acc
    ELSE LexBundleShifted([acc EXCEPT
                       !.store = StorePush(acc.store, Tag_Switch(<<chars[k - 1]>>), Len(acc.tokens)),
                       !.tokens = Append(acc.tokens, Token_Switch(i, chars[k]))],
                   i, chars, k + 1)

\* the `while let Some(c) = arg.next()` loop over the rest of a switch bundle
RECURSIVE LexBundle(_, _, _, _)
LexBundle(acc, i, chars, k) ==
    IF k > Len(chars) THEN acc
    ELSE LexBundle([acc EXCEPT
                       !.store = StorePush(acc.store, Tag_Switch(<<chars[k]>>), Len(acc.tokens)),
                       !.tokens = Append(acc.tokens, Token_Switch(i, chars[k]))],
                   i, chars, k + 1)

\* the body of the `while let Some((i, arg)) = args.next()` loop
LexArg(acc, i, arg0) ==
    IF acc.terminated
    THEN [acc EXCEPT !.tokens = Append(@, Ignore(i, arg0))]
    ELSE IF starts_with(arg0, SWITCH)
    THEN LET sp == split_once(arg0, "=")
             arg == IF sp.some THEN sp.opt ELSE arg0
             a1 == IF starts_with(arg, FLAG)
                   THEN LET name == SubSeq(arg, 3, Len(arg))
                        IN  IF name = <<>>
                            THEN [acc EXCEPT !.tokens = Append(@, Terminator(i)),
                                             !.terminated = TRUE]
                            ELSE [acc EXCEPT
                                     !.store = StorePush(acc.store, Tag_Flag(name), Len(acc.tokens)),
                                     !.tokens = Append(acc.tokens, Token_Flag(i))]
                   ELSE LET chars == SubSeq(arg, 2, Len(arg))
                            first == IF Len(chars) > 0
                                     THEN [acc EXCEPT
                                              !.store = StorePush(acc.store, Tag_Switch(<<chars[1]>>), Len(acc.tokens)),
                                              !.tokens = Append(acc.tokens, Token_Switch(i, chars[1]))]
                                     ELSE [acc EXCEPT
                                              !.store = StorePush(acc.store, Tag_Switch(<<>>), Len(acc.tokens)),
                                              !.tokens = Append(acc.tokens, EmptySwitch(i))]
                        IN  LexBundle(first, i, chars, 2)
         IN  IF sp.some
             THEN [a1 EXCEPT !.tokens = Append(@, AttachedArgument(i, sp.val))]
             ELSE a1
    ELSE [acc EXCEPT !.tokens = Append(@, UnattachedArgument(i, arg0))]

\* variant: a loop that forgets the terminator before each argument
RECURSIVE LexFromOpen(_, _, _)
LexFromOpen(acc, rest, i) ==
    IF i >= Len(rest) THEN acc
    ELSE LexFromOpen(LexArg([acc EXCEPT !.terminated = FALSE], i, Get(rest, i)), rest, i + 1)

RECURSIVE LexFrom(_, _, _)
LexFrom(acc, rest, i) ==
    IF i >= Len(rest) THEN acc
    ELSE LexFrom(LexArg(acc, i, Get(rest, i)), rest, i + 1)

\* args.skip(1).enumerate(), then the loop; yields the token vector and the index
tokenize(args) ==
    LET rest == IF Len(args) = 0 THEN <<>> ELSE Tail(args)
    IN  LexFrom([tokens |-> <<>>, store |-> EmptyStore, terminated |-> FALSE], rest, 0)

-----------------------------------------------------------------------------
(* Declared-argument shapes (name + optional one-character short form), the  *)
(* ledger's Arg descriptors, results and errors                              *)

\* Flag::new(name) / Flag::new(name).switch(c); Optional and Positional alike
Flag_new(name) == [name |-> name, switch |-> <<>>]
with_switch(f, c) == [f EXCEPT !.switch = <<c>>]

Arg_Flag(f) == [kind |-> "Flag", name |-> f.name, switch |-> f.switch]
Arg_Optional(o) == [kind |-> "Optional", name |-> o.name, switch |-> o.switch]
Arg_Positional(p) == [kind |-> "Positional", name |-> p.name, switch |-> <<>>]

Unit == <<>>
Ok(v) == [k |-> "Ok", v |-> v]
Err(e) == [k |-> "Err", e |-> e]
\* panic!, expect and unwrap on none: the call does not return
Panic(msg) == [k |-> "Panic", msg |-> msg]

\* Option<T> of a returned value
NoneV == [some |-> FALSE, v |-> Unit]
SomeV(x) == [some |-> TRUE, v |-> x]

\* Option<Help>; a Help carries its help flag descriptor
NoHelp == [some |-> FALSE, flag |-> Flag_new(<<>>)]
SomeHelp(h) == [some |-> TRUE, flag |-> h.flag]

CliError_Help(help) == [kind |-> "Help", help |-> help]
BadType(arg, s, help) == [kind |-> "BadType", arg |-> arg, s |-> s, help |-> help]
DuplicateOptions(arg, help) == [kind |-> "DuplicateOptions", arg |-> arg, help |-> help]
UnexpectedValue(arg, s) == [kind |-> "UnexpectedValue", arg |-> arg, s |-> s]
ExpectingValue(arg, help) == [kind |-> "ExpectingValue", arg |-> arg, help |-> help]
MissingPositional(arg, help) == [kind |-> "MissingPositional", arg |-> arg, help |-> help]
UnexpectedArg(s, help) == [kind |-> "UnexpectedArg", s |-> s, help |-> help]
UnknownSubcommand(arg, s, help) == [kind |-> "UnknownSubcommand", arg |-> arg, s |-> s, help |-> help]
SuggestSubcommand(s, w) == [kind |-> "SuggestSubcommand", s |-> s, w |-> w]
SuggestArg(s, w) == [kind |-> "SuggestArg", s |-> s, w |-> w]
OutOfContextArgSuggest(o, s, help) == [kind |-> "OutOfContextArgSuggest", o |-> o, s |-> s, help |-> help]
ExceedingMaxCount(n, count, arg) == [kind |-> "ExceedingMaxCount", n |-> n, count |-> count, arg |-> arg]

-----------------------------------------------------------------------------
(* str::parse::<T>() for the two value types the callers of the tests use *)

Digits == <<"0", "1", "2", "3", "4", "5", "6", "7", "8", "9">>
IsDigit(c) == \E d \in 1..10 : Digits[d] = c
DigitVal(c) == (CHOOSE d \in 1..10 : Digits[d] = c) - 1

RECURSIVE DecVal(_, _)
DecVal(s, k) == IF k = 0 THEN 0 ELSE 10 * DecVal(s, k - 1) + DigitVal(s[k])

\* T = "String" never fails; T = "i32" reads an optional sign and decimal digits
parse(s, T) ==
    IF T = "String" THEN [ok |-> TRUE, v |-> s]
    ELSE LET signed == Len(s) > 0 /\ s[1] \in {"-", "+"}
             body == IF signed THEN Tail(s) ELSE s
         IN  IF Len(body) > 0 /\ \A k \in 1..Len(body) : IsDigit(body[k])
             THEN [ok |-> TRUE,
                   v |-> IF signed /\ s[1] = "-" THEN 0 - DecVal(body, Len(body))
                                                   ELSE DecVal(body, Len(body))]
             ELSE [ok |-> FALSE, v |-> 0]

-----------------------------------------------------------------------------
(* The suggestion oracle seqalin::sel_min_edit_str: the closest word of the  *)
(* bank within max_cost edits, or none                                       *)

Min2(a, b) == IF a <= b THEN a ELSE b

RECURSIVE EditCost(_, _, _, _)
EditCost(a, b, i, j) ==
    IF i = 0 THEN j
    ELSE IF j = 0 THEN i
    ELSE Min2(Min2(EditCost(a, b, i - 1, j) + 1, EditCost(a, b, i, j - 1) + 1),
              EditCost(a, b, i - 1, j - 1) + (IF a[i] = b[j] THEN 0 ELSE 1))

sel_min_edit_str(s, bank, threshold) ==
    LET cost(k) == EditCost(s, bank[k], Len(s), Len(bank[k]))
        near == {k \in 1..Len(bank) : cost(k) <= threshold}
    IN  IF near = {} THEN NoneV
        ELSE SomeV(bank[CHOOSE k \in near : \A j \in near : cost(k) < cost(j) \/ (cost(k) = cost(j) /\ k <= j)])

-----------------------------------------------------------------------------
(* impl Cli: every method is an operator from the struct `self` to the      *)
(* struct after the call (`self`) and what the call returns (`r`).          *)
(* With(v, K) binds an intermediate value, as a `let` of the code does.     *)

With(v, K(_)) == K(v)

\* Cli::new() followed by .threshold(cost) and .tokenize(args)
Cli_new(args, cost) ==
    With(tokenize(args), LAMBDA lexed :
        [tokens |-> lexed.tokens,
         opt_store |-> lexed.store,
         known_args |-> <<>>,
         help |-> NoHelp,
         asking_for_help |-> FALSE,
         threshold |-> cost])

is_help_enabled(self) == self.help.some

disable_help(self) == [self |-> [self EXCEPT !.help = NoHelp], r |-> Ok(Unit)]

prioritize_help(self) ==
    IF self.asking_for_help = TRUE /\ is_help_enabled(self) = TRUE
    THEN Err(CliError_Help(self.help))
    ELSE Ok(Unit)

\* known_args.pop(): the ledger without its last entry
\* variant: the descriptor copied into the error and left on the ledger
pop_kept(self) == self
pop(self) == [self EXCEPT !.known_args = SubSeq(@, 1, Len(@) - 1)]
last_arg(self) == self.known_args[Len(self.known_args)]

Slots(tokens) == 0..(Len(tokens) - 1)
\* the slots still holding a token
Occupied(tokens) == {p \in Slots(tokens) : Get(tokens, p) # None}
MinOf(S) == CHOOSE x \in S : \A y \in S : x <= y

\* variant: a scan from the right end of the stream
next_uarg_rightmost(self) ==
    With({p \in Slots(self.tokens) :
            Get(self.tokens, p).kind \in {"UnattachedArgument", "Terminator"}}, LAMBDA hits :
        IF hits = {} THEN [self |-> self, r |-> NoneStr]
        ELSE With(CHOOSE p \in hits : \A q \in hits : q <= p, LAMBDA p :
                 IF Get(self.tokens, p).kind = "Terminator"
                 THEN [self |-> self, r |-> NoneStr]
                 ELSE [self |-> [self EXCEPT !.tokens[p + 1] = None],
                       r |-> SomeStr(Get(self.tokens, p).s)]))

\* variant: the arguments behind the terminator served as positionals too
next_uarg_any(self) ==
    With({p \in Slots(self.tokens) :
            Get(self.tokens, p).kind \in {"UnattachedArgument", "Ignore"}}, LAMBDA hits :
        IF hits = {} THEN [self |-> self, r |-> NoneStr]
        ELSE [self |-> [self EXCEPT !.tokens[MinOf(hits) + 1] = None],
              r |-> SomeStr(Get(self.tokens, MinOf(hits)).s)])

next_uarg(self) ==
    With({p \in Slots(self.tokens) :
            Get(self.tokens, p).kind \in {"UnattachedArgument", "Terminator"}}, LAMBDA hits :
        IF hits = {} THEN [self |-> self, r |-> NoneStr]
        ELSE With(MinOf(hits), LAMBDA p :
                 IF Get(self.tokens, p).kind = "Terminator"
                 THEN [self |-> self, r |-> NoneStr]
                 ELSE [self |-> [self EXCEPT !.tokens[p + 1] = None],
                       r |-> SomeStr(Get(self.tokens, p).s)]))

\* variant: HashMap::get(tag).cloned().unwrap_or(vec![]), the entry stays in the index
store_get(self, tag) ==
    IF tag \in DOMAIN self.opt_store
    THEN [self |-> self, locs |-> self.opt_store[tag]]
    ELSE [self |-> self, locs |-> <<>>]

\* variant: std::mem::take(store.entry(tag).or_default()), an absent tag gains an entry
store_entry_take(self, tag) ==
    [self |-> [self EXCEPT !.opt_store =
                  [t \in DOMAIN self.opt_store \cup {tag} |->
                      IF t = tag THEN <<>> ELSE self.opt_store[t]]],
     locs |-> IF tag \in DOMAIN self.opt_store THEN self.opt_store[tag] ELSE <<>>]

\* HashMap::remove(tag).unwrap_or(vec![])
store_remove(self, tag) ==
    IF tag \in DOMAIN self.opt_store
    THEN [self |-> [self EXCEPT !.opt_store =
                        [t \in DOMAIN self.opt_store \ {tag} |-> self.opt_store[t]]],
          locs |-> self.opt_store[tag]]
    ELSE [self |-> self, locs |-> <<>>]

take_flag_locs(self, tag) == store_remove(self, Tag_Flag(tag))

take_switch_locs(self, c) == store_remove(self, Tag_Switch(<<c>>))

\* variant: only the long form is looked up
take_locs_long(self, f) == take_flag_locs(self, f.name)

\* the locations of a declared flag/option: its long form, then its short form
take_locs(self, f) ==
    With(take_flag_locs(self, f.name), LAMBDA a :
        IF f.switch # <<>>
        THEN With(take_switch_locs(a.self, f.switch[1]), LAMBDA b :
                 [self |-> b.self, locs |-> a.locs \o b.locs])
        ELSE a)

\* variant: a pull that takes a following unattached argument for flags too
pull_one_greedy(tokens, i, with_uarg) ==
    With([tokens EXCEPT ![i + 1] = None], LAMBDA t1 :
        IF i + 1 < Len(t1) /\ Get(t1, i + 1).kind \in {"AttachedArgument", "UnattachedArgument"}
        THEN [tokens |-> [t1 EXCEPT ![i + 2] = None], v |-> SomeStr(Get(t1, i + 1).s)]
        ELSE [tokens |-> t1, v |-> NoneStr])

\* variant: a bare '-' after an option taken as the option's value
pull_one_dash(tokens, i, with_uarg) ==
    With([tokens EXCEPT ![i + 1] = None], LAMBDA t1 :
        IF i + 1 < Len(t1)
        THEN With(Get(t1, i + 1), LAMBDA t_next :
                 IF t_next.kind = "AttachedArgument"
                 THEN [tokens |-> [t1 EXCEPT ![i + 2] = None], v |-> SomeStr(t_next.s)]
                 ELSE IF t_next.kind = "UnattachedArgument" /\ with_uarg
                 THEN [tokens |-> [t1 EXCEPT ![i + 2] = None], v |-> SomeStr(t_next.s)]
                 ELSE IF t_next.kind = "EmptySwitch" /\ with_uarg
                 THEN [tokens |-> [t1 EXCEPT ![i + 2] = None], v |-> SomeStr(SWITCH)]
                 ELSE [tokens |-> t1, v |-> NoneStr])
        ELSE [tokens |-> t1, v |-> NoneStr])

\* one step of pull_flag's map over `locations`: empty slot i, look at slot i+1
pull_one(tokens, i, with_uarg) ==
    With([tokens EXCEPT ![i + 1] = None], LAMBDA t1 :
        IF i + 1 < Len(t1)
        THEN With(Get(t1, i + 1), LAMBDA t_next :
                 IF t_next.kind = "AttachedArgument"
                 THEN [tokens |-> [t1 EXCEPT ![i + 2] = None], v |-> SomeStr(t_next.s)]
                 ELSE IF t_next.kind = "UnattachedArgument" /\ with_uarg
                 THEN [tokens |-> [t1 EXCEPT ![i + 2] = None], v |-> SomeStr(t_next.s)]
                 ELSE [tokens |-> t1, v |-> NoneStr])
        ELSE [tokens |-> t1, v |-> NoneStr])

\* variant: only the first of the locations is pulled
pull_from_first(tokens, locations, with_uarg, k, values) ==
    IF locations = <<>> THEN [tokens |-> tokens, values |-> values]
    ELSE With(pull_one(tokens, locations[1], with_uarg), LAMBDA one :
             [tokens |-> one.tokens,
              values |-> <<one.v>> \o [j \in 1..(Len(locations) - 1) |-> NoneStr]])

RECURSIVE pull_from(_, _, _, _, _)
pull_from(tokens, locations, with_uarg, k, values) ==
    IF k > Len(locations) THEN [tokens |-> tokens, values |-> values]
    ELSE With(pull_one(tokens, locations[k], with_uarg), LAMBDA one :
             pull_from(one.tokens, locations, with_uarg, k + 1, Append(values, one.v)))

pull_flag(self, locations, with_uarg) ==
    With(pull_from(self.tokens, locations, with_uarg, 1, <<>>), LAMBDA p :
        [self |-> [self EXCEPT !.tokens = p.tokens], values |-> p.values])

\* variant: the oracle consulted whatever the threshold, with a bound of at least 1
suggest_unguarded(self, s, bank) ==
    sel_min_edit_str(s, bank, IF self.threshold > 0 THEN self.threshold ELSE 1)

\* `if self.threshold > 0 { seqalin::sel_min_edit_str(s, &bank, self.threshold) } else { None }`
suggest(self, s, bank) ==
    IF self.threshold > 0 THEN sel_min_edit_str(s, bank, self.threshold) ELSE NoneV

known_args_as_flag_names(self) ==
    With({k \in 1..Len(self.known_args) : self.known_args[k].kind \in {"Flag", "Optional"}},
         LAMBDA named :
        [n \in 1..Cardinality(named) |->
            self.known_args[CHOOSE k \in named : Cardinality({j \in named : j < k}) = n - 1].name])

\* variant: the loop keeps the first entry it meets below the breakpoint
RECURSIVE first_flag_kept(_, _, _, _, _)
first_flag_kept(store, order, breakpoint, k, min_i) ==
    IF k > Len(order) THEN min_i
    ELSE With(store[order[k]], LAMBDA val :
             first_flag_kept(store, order, breakpoint, k + 1,
                 IF val[1] < breakpoint /\ min_i.some = FALSE
                 THEN SomeV(<<order[k], val[1]>>)
                 ELSE min_i))

\* the loop of find_first_flag_left over the index entries taken in the order `order`
RECURSIVE first_flag_fold(_, _, _, _, _)
first_flag_fold(store, order, breakpoint, k, min_i) ==
    IF k > Len(order) THEN min_i
    ELSE With(store[order[k]], LAMBDA val :
             first_flag_fold(store, order, breakpoint, k + 1,
                 IF val[1] < breakpoint /\ (min_i.some = FALSE \/ min_i.v[2] > val[1])
                 THEN SomeV(<<order[k], val[1]>>)
                 ELSE min_i))

\* one enumeration of a set (the iteration order of a HashMap is unspecified)
RECURSIVE SeqOf(_)
SeqOf(S) ==
    IF S = {} THEN <<>>
    ELSE With(CHOOSE x \in S : TRUE, LAMBDA x : <<x>> \o SeqOf(S \ {x}))

find_first_flag_left(self, breakpoint) ==
    first_flag_fold(self.opt_store, SeqOf(DOMAIN self.opt_store), breakpoint, 1, NoneV)

\* the match on the token still in the slot found: Ok(Some((prefix, key, pos))),
\* a suggestion, or a panic
bad_flag_at(self, key, val, t) ==
    IF t.kind \in {"Switch", "EmptySwitch"} THEN Ok(SomeV(<<SWITCH, key, val>>))
    ELSE IF t.kind = "Flag"
    THEN With(suggest(self, key, known_args_as_flag_names(self)), LAMBDA sug :
             IF sug.some
             THEN Err(SuggestArg(FLAG \o key, FLAG \o sug.v))
             ELSE Ok(SomeV(<<FLAG, key, val>>)))
    ELSE IF t.kind = "None" THEN Panic("this token's values have been removed")
    ELSE Panic("no other tokens are allowed in hashmap")

\* Ok(Some((prefix, key, pos))), Ok(None), an error or a panic
capture_bad_flag(self, i) ==
    With(find_first_flag_left(self, i), LAMBDA found :
        IF found.some
        THEN With(prioritize_help(self), LAMBDA ph :
                 IF ph.k = "Err" THEN ph
                 ELSE bad_flag_at(self, found.v[1].n, found.v[2], Get(self.tokens, found.v[2])))
        ELSE Ok(NoneV))

\* variant: no look at the tokens left once no option is left
first_left_skipped(self) == Ok(Unit)

\* the first token left in the stream, once no option is left
first_left(self) ==
    With({p \in Slots(self.tokens) : Get(self.tokens, p) # None}, LAMBDA left :
        IF left # {}
        THEN With(Get(self.tokens, MinOf(left)), LAMBDA t :
                 IF t.kind = "UnattachedArgument" THEN Err(UnexpectedArg(t.s, self.help))
                 ELSE IF t.kind = "Terminator" THEN Err(UnexpectedArg(FLAG, self.help))
                 ELSE Panic("no other tokens types should be left"))
        ELSE Ok(Unit))

\* variant: an is_empty that does not look at the help request first
is_empty_unprioritized(self) ==
    With(capture_bad_flag(self, Len(self.tokens)), LAMBDA bad :
        IF bad.k # "Ok" THEN bad
        ELSE IF bad.v.some THEN Err(UnexpectedArg(bad.v.v[1] \o bad.v.v[2], self.help))
        ELSE first_left(self))

\* variant: an is_empty that looks at the first token left before the options
is_empty_in_order(self) ==
    With(prioritize_help(self), LAMBDA ph :
        IF ph.k = "Err" THEN ph
        ELSE With({p \in Slots(self.tokens) : Get(self.tokens, p).kind = "UnattachedArgument"},
                  LAMBDA words :
                 IF words # {} /\ \A p \in Occupied(self.tokens) : MinOf(words) <= p
                 THEN first_left(self)
                 ELSE With(capture_bad_flag(self, Len(self.tokens)), LAMBDA bad :
                          IF bad.k # "Ok" THEN bad
                          ELSE IF bad.v.some
                          THEN Err(UnexpectedArg(bad.v.v[1] \o bad.v.v[2], self.help))
                          ELSE first_left(self))))

is_empty(self) ==
    With(prioritize_help(self), LAMBDA ph :
        IF ph.k = "Err" THEN ph
        ELSE With(capture_bad_flag(self, Len(self.tokens)), LAMBDA bad :
                 IF bad.k # "Ok" THEN bad
                 ELSE IF bad.v.some THEN Err(UnexpectedArg(bad.v.v[1] \o bad.v.v[2], self.help))
                 ELSE first_left(self)))

\* variant: a drain that returns an attached value with the ignored arguments
RECURSIVE drain_lenient(_, _, _)
drain_lenient(tokens, k, out) ==
    IF k >= Len(tokens) THEN [tokens |-> tokens, r |-> Ok(out)]
    ELSE With(Get(tokens, k), LAMBDA tkn :
             IF tkn.kind = "Terminator"
             THEN drain_lenient([tokens EXCEPT ![k + 1] = None], k + 1, out)
             ELSE IF tkn.kind \in {"Ignore", "AttachedArgument"}
             THEN drain_lenient([tokens EXCEPT ![k + 1] = None], k + 1, Append(out, tkn.s))
             ELSE [tokens |-> tokens, r |-> Panic("no other tokens should exist beyond terminator")])

\* variant: a drain that leaves the terminator in its slot
RECURSIVE drain_after(_, _, _)
drain_after(tokens, k, out) ==
    IF k >= Len(tokens) THEN [tokens |-> tokens, r |-> Ok(out)]
    ELSE With(Get(tokens, k), LAMBDA tkn :
             IF tkn.kind = "Terminator" THEN drain_after(tokens, k + 1, out)
             ELSE IF tkn.kind = "Ignore"
             THEN drain_after([tokens EXCEPT ![k + 1] = None], k + 1, Append(out, tkn.s))
             ELSE [tokens |-> tokens, r |-> Ok(out)])

\* the filter_map of check_remainder from slot k on, collected into a Result:
\* the collection stops at the first error
RECURSIVE drain(_, _, _)
drain(tokens, k, out) ==
    IF k >= Len(tokens) THEN [tokens |-> tokens, r |-> Ok(out)]
    ELSE With(Get(tokens, k), LAMBDA tkn :
             IF tkn.kind = "Terminator"
             THEN drain([tokens EXCEPT ![k + 1] = None], k + 1, out)
             ELSE IF tkn.kind = "Ignore"
             THEN drain([tokens EXCEPT ![k + 1] = None], k + 1, Append(out, tkn.s))
             ELSE IF tkn.kind = "AttachedArgument"
             THEN [tokens |-> [tokens EXCEPT ![k + 1] = None],
                   r |-> Err(UnexpectedValue(Arg_Flag(Flag_new(<<>>)), tkn.s))]
             ELSE [tokens |-> tokens, r |-> Panic("no other tokens should exist beyond terminator")])

check_remainder(self) ==
    With({p \in Slots(self.tokens) : Get(self.tokens, p).kind = "Terminator"}, LAMBDA terms :
        IF terms = {} THEN [self |-> self, r |-> Ok(<<>>)]
        ELSE With(drain(self.tokens, MinOf(terms), <<>>), LAMBDA d :
                 [self |-> [self EXCEPT !.tokens = d.tokens], r |-> d.r]))

\* `self.prioritize_help()?; Err(e)` followed by known_args.pop() inside e:
\* the help outcome if help is asked for, else the error built on the popped descriptor
help_or(self, E(_)) ==
    With(prioritize_help(self), LAMBDA ph :
        IF ph.k = "Err" THEN [self |-> self, r |-> ph]
        ELSE [self |-> pop(self), r |-> Err(E(last_arg(self)))])

-----------------------------------------------------------------------------
(* The public queries *)

\* variant: the state set by any raised flag named "h", whether help is
\* configured or not
flag_all_pulled_eager(s2, occurences) ==
    With({k \in 1..Len(occurences) : occurences[k].some}, LAMBDA withval :
        IF withval # {}
        THEN help_or(s2, LAMBDA a : UnexpectedValue(a, occurences[MinOf(withval)].v))
        ELSE [self |-> IF /\ (Len(occurences) # 0) = TRUE
                          /\ <<"h">> = last_arg(s2).name
                       THEN [s2 EXCEPT !.asking_for_help = TRUE]
                       ELSE s2,
              r |-> Ok(Len(occurences))])

\* variant: attached values are dropped without complaint
flag_all_pulled_lenient(s2, occurences) ==
    [self |-> IF /\ s2.help.some
                 /\ (Len(occurences) # 0) = TRUE
                 /\ s2.help.flag.name = last_arg(s2).name
              THEN [s2 EXCEPT !.asking_for_help = TRUE]
              ELSE s2,
     r |-> Ok(Len(occurences))]

\* what check_flag_all does once the occurrences are pulled
flag_all_pulled(s2, occurences) ==
    With({k \in 1..Len(occurences) : occurences[k].some}, LAMBDA withval :
        IF withval # {}
        THEN help_or(s2, LAMBDA a : UnexpectedValue(a, occurences[MinOf(withval)].v))
        ELSE [self |-> IF /\ s2.help.some
                          /\ (Len(occurences) # 0) = TRUE
                          /\ s2.help.flag.name = last_arg(s2).name
                       THEN [s2 EXCEPT !.asking_for_help = TRUE]
                       ELSE s2,
              r |-> Ok(Len(occurences))])

check_flag_all(self, f) ==
    With(take_locs(self, f), LAMBDA tk :
    With(pull_flag([tk.self EXCEPT !.known_args = Append(@, Arg_Flag(f))], tk.locs, FALSE),
         LAMBDA pf : flag_all_pulled(pf.self, pf.values)))

check_flag(self, f) ==
    With(check_flag_all(self, f), LAMBDA c :
        IF c.r.k # "Ok" THEN c
        ELSE IF c.r.v > 1
        THEN help_or(c.self, LAMBDA a : DuplicateOptions(a, c.self.help))
        ELSE [self |-> c.self, r |-> Ok(c.r.v = 1)])

check_flag_n(self, f, n) ==
    With(check_flag_all(self, f), LAMBDA c :
        IF c.r.k # "Ok" THEN c
        ELSE IF c.r.v <= n THEN c
        ELSE [self |-> pop(c.self), r |-> Err(ExceedingMaxCount(n, c.r.v, last_arg(c.self)))])

\* variant: of several occurrences the first one counts
option_pulled_first(s2, values, T) ==
    IF Len(values) >= 1
    THEN IF values[1].some
         THEN With(parse(values[1].v, T), LAMBDA result :
                  IF result.ok THEN [self |-> s2, r |-> Ok(SomeV(result.v))]
                  ELSE help_or(s2, LAMBDA a : BadType(a, values[1].v, s2.help)))
         ELSE help_or(s2, LAMBDA a : ExpectingValue(a, s2.help))
    ELSE [self |-> s2, r |-> Ok(NoneV)]

\* the `match values.len()` of check_option
option_pulled(s2, values, T) ==
    IF Len(values) = 1
    THEN IF values[1].some
         THEN With(parse(values[1].v, T), LAMBDA result :
                  IF result.ok THEN [self |-> s2, r |-> Ok(SomeV(result.v))]
                  ELSE help_or(s2, LAMBDA a : BadType(a, values[1].v, s2.help)))
         ELSE help_or(s2, LAMBDA a : ExpectingValue(a, s2.help))
    ELSE IF Len(values) = 0 THEN [self |-> s2, r |-> Ok(NoneV)]
    ELSE help_or(s2, LAMBDA a : DuplicateOptions(a, s2.help))

\* variant: a failing query gives the stream and the index back
check_option_undone(self, o, T) ==
    With(take_locs(self, o), LAMBDA tk :
    With(pull_flag([tk.self EXCEPT !.known_args = Append(@, Arg_Optional(o))], tk.locs, TRUE),
         LAMBDA pf :
        With(option_pulled(pf.self, pf.values, T), LAMBDA out :
            IF out.r.k = "Err"
            THEN [self |-> [out.self EXCEPT !.tokens = self.tokens,
                                            !.opt_store = self.opt_store],
                  r |-> out.r]
            ELSE out)))

check_option(self, o, T) ==
    With(take_locs(self, o), LAMBDA tk :
    With(pull_flag([tk.self EXCEPT !.known_args = Append(@, Arg_Optional(o))], tk.locs, TRUE),
         LAMBDA pf : option_pulled(pf.self, pf.values, T)))

\* the `for val in values` loop of check_option_all: it returns at the first
\* value that is missing or does not parse
option_all_pulled(s2, values, T) ==
    With({k \in 1..Len(values) : values[k].some = FALSE \/ parse(values[k].v, T).ok = FALSE},
         LAMBDA bad :
        IF Len(values) = 0 THEN [self |-> s2, r |-> Ok(NoneV)]
        ELSE IF bad # {}
        THEN IF values[MinOf(bad)].some
             THEN help_or(s2, LAMBDA a : BadType(a, values[MinOf(bad)].v, s2.help))
             ELSE help_or(s2, LAMBDA a : ExpectingValue(a, s2.help))
        ELSE [self |-> s2,
              r |-> Ok(SomeV([k \in 1..Len(values) |-> parse(values[k].v, T).v]))])

check_option_all(self, o, T) ==
    With(take_locs(self, o), LAMBDA tk :
    With(pull_flag([tk.self EXCEPT !.known_args = Append(@, Arg_Optional(o))], tk.locs, TRUE),
         LAMBDA pf : option_all_pulled(pf.self, pf.values, T)))

\* variant: a cap that n occurrences already exceed
check_option_n_strict(self, o, n, T) ==
    With(check_option_all(self, o, T), LAMBDA c :
        IF c.r.k # "Ok" THEN c
        ELSE IF c.r.v.some = FALSE THEN c
        ELSE IF Len(c.r.v.v) < n THEN c
        ELSE [self |-> pop(c.self),
              r |-> Err(ExceedingMaxCount(n, Len(c.r.v.v), last_arg(c.self)))])

check_option_n(self, o, n, T) ==
    With(check_option_all(self, o, T), LAMBDA c :
        IF c.r.k # "Ok" THEN c
        ELSE IF c.r.v.some = FALSE THEN c
        ELSE IF Len(c.r.v.v) <= n THEN c
        ELSE [self |-> pop(c.self),
              r |-> Err(ExceedingMaxCount(n, Len(c.r.v.v), last_arg(c.self)))])

\* the near match of an index entry whose first occurrence still holds a Flag token
flag_suggestion(self, t) ==
    IF Get(self.tokens, self.opt_store[t][1]).kind = "Flag"
    THEN suggest(self, t.n, known_args_as_flag_names(self))
    ELSE NoneV

prioritize_suggestion(self) ==
    With({t \in DOMAIN self.opt_store : flag_suggestion(self, t).some}, LAMBDA hits :
        IF self.asking_for_help = TRUE THEN Ok(Unit)
        ELSE IF hits # {}
        \* kv.sort_by(first occurrence), then find_map: the earliest hit
        THEN With(CHOOSE t \in hits :
                      \A u \in hits : self.opt_store[t][1] <= self.opt_store[u][1], LAMBDA f :
                 Err(SuggestArg(FLAG \o f.n, FLAG \o flag_suggestion(self, f).v)))
        ELSE Ok(Unit))

\* the Err(e) arm of check_positional's parse
positional_bad(s2, s) ==
    With(prioritize_help(s2), LAMBDA ph :
        IF ph.k = "Err" THEN [self |-> s2, r |-> ph]
        ELSE With(prioritize_suggestion(s2), LAMBDA ps :
                 IF ps.k = "Err" THEN [self |-> s2, r |-> ps]
                 ELSE [self |-> pop(s2), r |-> Err(BadType(last_arg(s2), s, s2.help))]))

check_positional(self, p, T) ==
    With(next_uarg([self EXCEPT !.known_args = Append(@, Arg_Positional(p))]), LAMBDA nx :
        IF nx.r.some
        THEN With(parse(nx.r.v, T), LAMBDA result :
                 IF result.ok THEN [self |-> nx.self, r |-> Ok(SomeV(result.v))]
                 ELSE positional_bad(nx.self, nx.r.v))
        ELSE [self |-> nx.self, r |-> Ok(NoneV)])

\* variant: the else arm without the call of is_empty
positional_missing_unchecked(self) ==
    With(prioritize_help(self), LAMBDA ph :
        IF ph.k = "Err" THEN [self |-> self, r |-> ph]
        ELSE [self |-> pop(self), r |-> Err(MissingPositional(last_arg(self), self.help))])

\* the else arm of require_positional
positional_missing(self) ==
    With(prioritize_help(self), LAMBDA ph :
        IF ph.k = "Err" THEN [self |-> self, r |-> ph]
        ELSE With(is_empty(self), LAMBDA e :
                 IF e.k # "Ok" THEN [self |-> self, r |-> e]
                 ELSE [self |-> pop(self), r |-> Err(MissingPositional(last_arg(self), self.help))]))

require_positional(self, p, T) ==
    With(check_positional(self, p, T), LAMBDA c :
        IF c.r.k # "Ok" THEN c
        ELSE IF c.r.v.some THEN [self |-> c.self, r |-> Ok(c.r.v.v)]
        ELSE positional_missing(c.self))

\* variant: a misplaced option reported before the word is looked up
command_matched_strict(s1, words, s, i, ooc_arg) ==
    IF ooc_arg.v.some /\ ooc_arg.v.v[3] < i
    THEN With(prioritize_help(s1), LAMBDA ph :
             IF ph.k = "Err" THEN [self |-> s1, r |-> ph]
             ELSE [self |-> s1,
                   r |-> Err(OutOfContextArgSuggest(ooc_arg.v.v[1] \o ooc_arg.v.v[2], s, s1.help))])
    ELSE IF \E k \in 1..Len(words) : words[k] = s
    THEN [self |-> s1, r |-> Ok(s)]
    ELSE With(suggest(s1, s, words), LAMBDA sug :
             IF sug.some THEN [self |-> s1, r |-> Err(SuggestSubcommand(s, sug.v))]
             ELSE With(prioritize_help(s1), LAMBDA ph :
                      IF ph.k = "Err" THEN [self |-> s1, r |-> ph]
                      ELSE IF Len(s1.known_args) = 0
                      THEN [self |-> s1, r |-> Panic("requires positional argument")]
                      ELSE [self |-> pop(s1),
                            r |-> Err(UnknownSubcommand(last_arg(s1), s, s1.help))]))

\* variant: the ledger is required to hold a descriptor before the word is looked at
command_matched_declared(s1, words, s, i, ooc_arg) ==
    IF Len(s1.known_args) = 0
    THEN [self |-> s1, r |-> Panic("requires positional argument")]
    ELSE IF \E k \in 1..Len(words) : words[k] = s
    THEN IF ooc_arg.v.some /\ ooc_arg.v.v[3] < i
         THEN With(prioritize_help(s1), LAMBDA ph :
                  IF ph.k = "Err" THEN [self |-> s1, r |-> ph]
                  ELSE [self |-> s1,
                        r |-> Err(OutOfContextArgSuggest(ooc_arg.v.v[1] \o ooc_arg.v.v[2], s, s1.help))])
         ELSE [self |-> s1, r |-> Ok(s)]
    ELSE With(suggest(s1, s, words), LAMBDA sug :
             IF sug.some THEN [self |-> s1, r |-> Err(SuggestSubcommand(s, sug.v))]
             ELSE With(prioritize_help(s1), LAMBDA ph :
                      IF ph.k = "Err" THEN [self |-> s1, r |-> ph]
                      ELSE [self |-> pop(s1),
                            r |-> Err(UnknownSubcommand(last_arg(s1), s, s1.help))]))

\* match_command once the word s is claimed: i is the original argument index
\* the word carried, ooc_arg what capture_bad_flag(i) found
command_matched(s1, words, s, i, ooc_arg) ==
    IF \E k \in 1..Len(words) : words[k] = s
    THEN IF ooc_arg.v.some /\ ooc_arg.v.v[3] < i
         THEN With(prioritize_help(s1), LAMBDA ph :
                  IF ph.k = "Err" THEN [self |-> s1, r |-> ph]
                  ELSE [self |-> s1,
                        r |-> Err(OutOfContextArgSuggest(ooc_arg.v.v[1] \o ooc_arg.v.v[2], s, s1.help))])
         ELSE [self |-> s1, r |-> Ok(s)]
    ELSE With(suggest(s1, s, words), LAMBDA sug :
             IF sug.some THEN [self |-> s1, r |-> Err(SuggestSubcommand(s, sug.v))]
             ELSE With(prioritize_help(s1), LAMBDA ph :
                      IF ph.k = "Err" THEN [self |-> s1, r |-> ph]
                      ELSE IF Len(s1.known_args) = 0
                      THEN [self |-> s1, r |-> Panic("requires positional argument")]
                      ELSE [self |-> pop(s1),
                            r |-> Err(UnknownSubcommand(last_arg(s1), s, s1.help))]))

\* variant: the whole stream scanned for unclaimed options
match_command_whole(self, words) ==
    With({p \in Slots(self.tokens) : Get(self.tokens, p).kind = "UnattachedArgument"},
         LAMBDA uargs :
        IF uargs = {}
        THEN [self |-> self,
              r |-> Panic("an unattached argument must exist before calling match_command")]
        ELSE With(next_uarg(self), LAMBDA nx :
                 IF nx.r.some = FALSE
                 THEN [self |-> nx.self,
                       r |-> Panic("check_command must be called before this function")]
                 ELSE With(capture_bad_flag(nx.self, Len(self.tokens)), LAMBDA ooc_arg :
                          IF ooc_arg.k # "Ok" THEN [self |-> nx.self, r |-> ooc_arg]
                          ELSE command_matched(nx.self, words, nx.r.v,
                                               Len(self.tokens), ooc_arg))))

match_command(self, words) ==
    With({p \in Slots(self.tokens) : Get(self.tokens, p).kind = "UnattachedArgument"},
         LAMBDA uargs :
        IF uargs = {}
        THEN [self |-> self,
              r |-> Panic("an unattached argument must exist before calling match_command")]
        ELSE With(next_uarg(self), LAMBDA nx :
                 IF nx.r.some = FALSE
                 THEN [self |-> nx.self,
                       r |-> Panic("check_command must be called before this function")]
                 ELSE With(capture_bad_flag(nx.self, Get(self.tokens, MinOf(uargs)).i),
                           LAMBDA ooc_arg :
                          IF ooc_arg.k # "Ok" THEN [self |-> nx.self, r |-> ooc_arg]
                          ELSE command_matched(nx.self, words, nx.r.v,
                                               Get(self.tokens, MinOf(uargs)).i, ooc_arg))))

\* FromCli::from_cli of a subcommand type: it resolves its word with match_command
from_cli(self, words) == match_command(self, words)

\* variant: the subcommand's routine entered whatever is left in the stream
check_command_eager(self, p, words) ==
    With([self EXCEPT !.known_args = Append(@, Arg_Positional(p))], LAMBDA s1 :
        With(from_cli(s1, words), LAMBDA sub :
            IF sub.r.k = "Ok" THEN [self |-> sub.self, r |-> Ok(SomeV(sub.r.v))] ELSE sub))

check_command(self, p, words) ==
    With([self EXCEPT !.known_args = Append(@, Arg_Positional(p))], LAMBDA s1 :
        IF \E q \in Slots(s1.tokens) : Get(s1.tokens, q).kind = "UnattachedArgument"
        THEN With(from_cli(s1, words), LAMBDA sub :
                 IF sub.r.k = "Ok" THEN [self |-> sub.self, r |-> Ok(SomeV(sub.r.v))] ELSE sub)
        ELSE [self |-> s1, r |-> Ok(NoneV)])

\* variant: the help flag looked up again at every call
help_rechecked(self, h) ==
    With([self EXCEPT !.help = SomeHelp(h)], LAMBDA s1 :
        IF is_help_enabled(s1) = TRUE
        THEN With(check_flag(s1, h.flag), LAMBDA c :
                 IF c.r.k = "Ok"
                 THEN [self |-> [c.self EXCEPT !.asking_for_help = c.r.v], r |-> Ok(Unit)]
                 ELSE c)
        ELSE [self |-> s1, r |-> Ok(Unit)])

help(self, h) ==
    With([self EXCEPT !.help = SomeHelp(h)], LAMBDA s1 :
        IF s1.asking_for_help = FALSE /\ is_help_enabled(s1) = TRUE
        THEN With(check_flag(s1, h.flag), LAMBDA c :
                 IF c.r.k = "Ok"
                 THEN [self |-> [c.self EXCEPT !.asking_for_help = c.r.v], r |-> Ok(Unit)]
                 ELSE c)
        ELSE [self |-> s1, r |-> Ok(Unit)])

-----------------------------------------------------------------------------
(* The calling program: the arguments it declares, its help, its word list *)

\* Flag::new("v").switch('v'), Optional::new("r").switch('r'), and the help flag
V == with_switch(Flag_new(<<"v">>), "v")
R == with_switch(Flag_new(<<"r">>), "r")
HelpFlag == with_switch(Flag_new(<<"h">>), "h")
Flags == {V, HelpFlag}
Options == {R}
Pos == [name |-> <<"p">>]
\* Help::new(): the help flag it designates
Help_new == [flag |-> HelpFlag]
Words == << <<"a">>, <<"c", "d">> >>
Types == {"i32"}
Caps == 0..MaxN
NoArg == Flag_new(<<>>)

Call(op, f, n, r) == [op |-> op, f |-> f, n |-> n, r |-> r]

\* a panic ends the process: no further call is made on the engine
Alive == last.r.k # "Panic"
Room == Len(cli.known_args) < MaxLedger

Tokenize(alphabet, costs) ==
    /\ argv \in {<<>>} \cup
                {<<<<"p", "r", "o", "g">>>> \o rest :
                    rest \in UNION {[1..n -> alphabet] : n \in 0..MaxArgs}}
    /\ \E cost \in costs : cli = Cli_new(argv, cost)
    /\ last = Call("tokenize", NoArg, 0, Ok(Unit))
    /\ queried = {}

CheckFlag ==
    \E f \in Flags :
        /\ Alive /\ Room
        /\ With(check_flag(cli, f), LAMBDA out :
               cli' = out.self /\ last' = Call("check_flag", f, 0, out.r))
        /\ queried' = queried \cup {f}
        /\ UNCHANGED argv

CheckFlagAll ==
    \E f \in Flags :
        /\ Alive /\ Room
        /\ With(check_flag_all(cli, f), LAMBDA out :
               cli' = out.self /\ last' = Call("check_flag_all", f, 0, out.r))
        /\ queried' = queried \cup {f}
        /\ UNCHANGED argv

CheckFlagN ==
    \E f \in Flags, n \in Caps :
        /\ Alive /\ Room
        /\ With(check_flag_n(cli, f, n), LAMBDA out :
               cli' = out.self /\ last' = Call("check_flag_n", f, n, out.r))
        /\ queried' = queried \cup {f}
        /\ UNCHANGED argv

CheckOption ==
    \E o \in Options, T \in Types :
        /\ Alive /\ Room
        /\ With(check_option(cli, o, T), LAMBDA out :
               cli' = out.self /\ last' = Call("check_option", o, 0, out.r))
        /\ queried' = queried \cup {o}
        /\ UNCHANGED argv

CheckOptionAll ==
    \E o \in Options, T \in Types :
        /\ Alive /\ Room
        /\ With(check_option_all(cli, o, T), LAMBDA out :
               cli' = out.self /\ last' = Call("check_option_all", o, 0, out.r))
        /\ queried' = queried \cup {o}
        /\ UNCHANGED argv

CheckOptionN ==
    \E o \in Options, n \in Caps, T \in Types :
        /\ Alive /\ Room
        /\ With(check_option_n(cli, o, n, T), LAMBDA out :
               cli' = out.self /\ last' = Call("check_option_n", o, n, out.r))
        /\ queried' = queried \cup {o}
        /\ UNCHANGED argv

CheckPositional ==
    \E T \in Types :
        /\ Alive /\ Room
        /\ With(check_positional(cli, Pos, T), LAMBDA out :
               cli' = out.self /\ last' = Call("check_positional", NoArg, 0, out.r))
        /\ UNCHANGED <<argv, queried>>

RequirePositional ==
    \E T \in Types :
        /\ Alive /\ Room
        /\ With(require_positional(cli, Pos, T), LAMBDA out :
               cli' = out.self /\ last' = Call("require_positional", NoArg, 0, out.r))
        /\ UNCHANGED <<argv, queried>>

CheckCommand ==
    /\ Alive /\ Room
    /\ With(check_command(cli, Pos, Words), LAMBDA out :
               cli' = out.self /\ last' = Call("check_command", NoArg, 0, out.r))
    /\ UNCHANGED <<argv, queried>>

MatchCommand ==
    /\ Alive
    /\ With(match_command(cli, Words), LAMBDA out :
               cli' = out.self /\ last' = Call("match_command", NoArg, 0, out.r))
    /\ UNCHANGED <<argv, queried>>

CheckRemainder ==
    /\ Alive
    /\ With(check_remainder(cli), LAMBDA out :
               cli' = out.self /\ last' = Call("check_remainder", NoArg, 0, out.r))
    /\ UNCHANGED <<argv, queried>>

\* variant: an is_empty that takes the first token left out of the stream
IsEmptyTaking ==
    /\ Alive
    /\ last' = Call("is_empty", NoArg, 0, is_empty(cli))
    /\ cli' = IF Occupied(cli.tokens) = {} THEN cli
              ELSE [cli EXCEPT !.tokens[MinOf(Occupied(cli.tokens)) + 1] = None]
    /\ UNCHANGED <<argv, queried>>

IsEmpty ==
    /\ Alive
    /\ last' = Call("is_empty", NoArg, 0, is_empty(cli))
    /\ UNCHANGED <<argv, cli, queried>>

SetHelp ==
    /\ Alive /\ Room
    /\ With(help(cli, Help_new), LAMBDA out :
               cli' = out.self /\ last' = Call("help", HelpFlag, 0, out.r))
    /\ queried' = IF cli.asking_for_help = FALSE THEN queried \cup {HelpFlag} ELSE queried
    /\ UNCHANGED argv

DisableHelp ==
    /\ Alive
    /\ With(disable_help(cli), LAMBDA out :
               cli' = out.self /\ last' = Call("disable_help", NoArg, 0, out.r))
    /\ UNCHANGED <<argv, queried>>

Next ==
    \/ CheckFlag \/ CheckFlagAll \/ CheckFlagN
    \/ CheckOption \/ CheckOptionAll \/ CheckOptionN
    \/ CheckPositional \/ RequirePositional
    \/ CheckCommand \/ MatchCommand
    \/ CheckRemainder \/ IsEmpty
    \/ SetHelp \/ DisableHelp

-----------------------------------------------------------------------------
(* Specifications: the engine built from every command line of at most      *)
(* MaxArgs arguments drawn from a small alphabet, then any sequence of calls *)

\* "-vr", "a", "--": a switch bundle, a word, the terminator
Init == Tokenize({<<"-", "v", "r">>, <<"a">>, <<"-", "-">>}, {0})
Spec == Init /\ [][Next]_vars

\* "-r", "2", "--r=1": short and long occurrences of the option, attached and following values
InitOpt == Tokenize({<<"-", "r">>, <<"2">>, <<"-", "-", "r", "=", "1">>}, {0})
SpecOpt == InitOpt /\ [][Next]_vars

\* "-vr", "a", "--r=1": options standing before a subcommand word
InitCmd == Tokenize({<<"-", "v", "r">>, <<"a">>, <<"-", "-", "r", "=", "1">>}, {0})
SpecCmd == InitCmd /\ [][Next]_vars

\* "--=1", "a", "-v": the terminator with an attached value
InitQuirk == Tokenize({<<"-", "-", "=", "1">>, <<"a">>, <<"-", "v">>}, {0})
SpecQuirk == InitQuirk /\ [][Next]_vars

\* "--h", "--r=1", "-v": the help flag among other options
InitHelp == Tokenize({<<"-", "-", "h">>, <<"-", "-", "r", "=", "1">>, <<"-", "v">>}, {0})
SpecHelp == InitHelp /\ [][Next]_vars

\* "-h", "2", "--": the help switch, a number, the terminator
InitTerm == Tokenize({<<"-", "h">>, <<"2">>, <<"-", "-">>}, {0})
SpecTerm == InitTerm /\ [][Next]_vars

\* "-v", "-r", "2": a flag, an option, a number that may follow either
InitOrder == Tokenize({<<"-", "v">>, <<"-", "r">>, <<"2">>}, {0})
SpecOrder == InitOrder /\ [][Next]_vars

\* "--v", "-hvr", "a": a flag in its long form and inside a bundle of three
InitFlag == Tokenize({<<"-", "-", "v">>, <<"-", "h", "v", "r">>, <<"a">>}, {0})
SpecFlag == InitFlag /\ [][Next]_vars

\* "-v", "--r=1", "-r": occurrences to count, with and without a value
InitCap == Tokenize({<<"-", "v">>, <<"-", "-", "r", "=", "1">>, <<"-", "r">>}, {0})
SpecCap == InitCap /\ [][Next]_vars

\* "--v=1", "-hv", "a": a flag given a value, and a flag followed by a word
InitVal == Tokenize({<<"-", "-", "v", "=", "1">>, <<"-", "h", "v">>, <<"a">>}, {0})
SpecVal == InitVal /\ [][Next]_vars

\* "-hr", "2", "--r=x": an option followed by a number, given a word with '='
InitOne == Tokenize({<<"-", "h", "r">>, <<"2">>, <<"-", "-", "r", "=", "x">>}, {0})
SpecOne == InitOne /\ [][Next]_vars

\* "--", "--r=1", "-v", "-": the terminator, a long name with a value, a
\* switch, a bare switch
InitLex == Tokenize({<<"-", "-">>, <<"-", "-", "r", "=", "1">>, <<"-", "v">>, <<"-">>}, {0})
SpecLex == InitLex /\ [][Next]_vars

\* "--r=1=2", "-v=1", "a=b": '=' after a long name, after a switch, inside a word
InitEq == Tokenize({<<"-", "-", "r", "=", "1", "=", "2">>, <<"-", "v", "=", "1">>,
                    <<"a", "=", "b">>}, {0})
SpecEq == InitEq /\ [][Next]_vars

\* "-vr", "a", "2": a switch bundle, a subcommand word, a word that is no subcommand
InitWord == Tokenize({<<"-", "v", "r">>, <<"a">>, <<"2">>}, {0})
SpecWord == InitWord /\ [][Next]_vars

\* "--h", "-h=1", "-v": the help flag in both forms, once with a value
InitAsk == Tokenize({<<"-", "-", "h">>, <<"-", "h", "=", "1">>, <<"-", "v">>}, {0})
SpecAsk == InitAsk /\ [][Next]_vars

\* "-", "-r", "a", "--": a bare '-' next to an option that takes a value, a word, a terminator
InitDash == Tokenize({<<"-">>, <<"-", "r">>, <<"a">>, <<"-", "-">>}, {0})
SpecDash == InitDash /\ [][Next]_vars

\* "-vr", "x", "-v=1": an option before a value that does not parse, a flag with a value
InitFail == Tokenize({<<"-", "v", "r">>, <<"x">>, <<"-", "v", "=", "1">>}, {0})
SpecFail == InitFail /\ [][Next]_vars

\* "--", "--v", "-h", "a": a long form, the help switch and a word around a terminator
InitLeft == Tokenize({<<"-", "-">>, <<"-", "-", "v">>, <<"-", "h">>, <<"a">>}, {0})
SpecLeft == InitLeft /\ [][Next]_vars

-----------------------------------------------------------------------------
(* Properties *)

\* the elements of a set of numbers in ascending order
Ascending(S) ==
    [n \in 1..Cardinality(S) |-> CHOOSE x \in S : Cardinality({y \in S : y < x}) = n - 1]

Elems(q) == {q[k] : k \in 1..Len(q)}

\* the slots where the declared flag/option d occurs in the stream, by either form
OccurrenceSlots(self, d) ==
    UNION {Elems(self.opt_store[t]) :
              t \in DOMAIN self.opt_store \cap {Tag_Flag(d.name), Tag_Switch(d.switch)}}

FlagOps == {"check_flag", "check_flag_all", "check_flag_n"}
OptionOps == {"check_option", "check_option_all", "check_option_n"}

\* C1: check_option_all returns the parsed values of all occurrences of the
\* option in the left-to-right order of the occurrences on the command line,
\* whatever mix of long and short, attached and following forms is used.
C1_ValuesInCommandLineOrder ==
    [][(last'.op = "check_option_all" /\ last'.r.k = "Ok" /\ last'.r.v.some)
        => With(Ascending(OccurrenceSlots(cli, last'.f)), LAMBDA slots :
               last'.r.v.v = [k \in 1..Len(slots) |->
                                 parse(Get(cli.tokens, slots[k] + 1).s, "i32").v])]_vars

\* the outcome of a query of a flag or option that does not occur
NeverOccurred(call) ==
    /\ call.r.k = "Ok"
    /\ call.op = "check_flag" => call.r.v = FALSE
    /\ call.op \in {"check_flag_all", "check_flag_n"} => call.r.v = 0
    /\ call.op \in OptionOps => call.r.v.some = FALSE

\* C2: once a declared flag or option has been queried, every later query of
\* it (by any of the six flag/option queries) answers as if it never occurred
\* (false, count 0, none) and claims no token and no index entry.
C2_LaterQueryNeverOccurred ==
    [][(last'.op \in FlagOps \cup OptionOps /\ last'.f \in queried)
        => /\ NeverOccurred(last')
           /\ cli'.tokens = cli.tokens
           /\ cli'.opt_store = cli.opt_store]_vars

\* a query answered "never occurred" for a flag or option that does occur on
\* the command line: only a repeated query can be, its first query removed the
\* occurrences from the index
C2_Witness ==
    /\ last.op \in FlagOps \cup OptionOps
    /\ NeverOccurred(last)
    /\ Cardinality(OccurrenceSlots(Cli_new(argv, 0), last.f)) >= 2
    /\ Occupied(cli.tokens) # {}

\* C3: every step leaves the stream and the index the same or smaller: a slot
\* keeps its token or is emptied, an emptied slot stays empty, an index entry
\* keeps its locations or is removed, a removed entry does not come back.
C3_OnlyShrinks ==
    [][/\ Len(cli'.tokens) = Len(cli.tokens)
       /\ \A p \in Slots(cli.tokens) :
              Get(cli'.tokens, p) = None \/ Get(cli'.tokens, p) = Get(cli.tokens, p)
       /\ DOMAIN cli'.opt_store \subseteq DOMAIN cli.opt_store
       /\ \A t \in DOMAIN cli'.opt_store : cli'.opt_store[t] = cli.opt_store[t]]_vars

\* queries have emptied some slots and removed some entries, others are left
C3_Witness ==
    /\ Occupied(cli.tokens) # {}
    /\ Occupied(cli.tokens) # Occupied(Cli_new(argv, 0).tokens)
    /\ DOMAIN cli.opt_store # {}
    /\ DOMAIN cli.opt_store # DOMAIN Cli_new(argv, 0).opt_store
    /\ last.op = "check_positional" /\ last.r.k = "Err" /\ last.r.e.kind = "BadType"

\* C7: is_empty succeeds exactly when no slot is occupied, the index is empty
\* and no help request is pending; it fails whenever a flag, a switch, a bare
\* "-", an unattached argument or the terminator is still unclaimed.
C7_EmptyIffAllClaimed ==
    last.op = "is_empty"
    => /\ last.r.k = "Ok" <=> /\ Occupied(cli.tokens) = {}
                              /\ DOMAIN cli.opt_store = {}
                              /\ ~(cli.help.some /\ cli.asking_for_help)
       /\ (\E p \in Slots(cli.tokens) :
               Get(cli.tokens, p).kind \in {"Flag", "Switch", "EmptySwitch",
                                           "UnattachedArgument", "Terminator"})
          => last.r.k = "Err"

\* is_empty succeeded on a command line of three arguments, all claimed
C7_Witness ==
    /\ last.op = "is_empty" /\ last.r.k = "Ok"
    /\ Len(argv) = 4
    /\ DOMAIN Cli_new(argv, 0).opt_store # {}
    /\ \E p \in Slots(cli.tokens) : Get(Cli_new(argv, 0).tokens, p).kind = "UnattachedArgument"

TerminatorArgs(args) ==
    {k \in 0..(Len(args) - 2) :
        Get(args, k + 1) = FLAG \/ starts_with(Get(args, k + 1), FLAG \o <<"=">>)}

\* the slots holding a token of an argument that stands after the terminator
Beyond(args, tokens) ==
    {p \in Occupied(tokens) :
        \E k \in TerminatorArgs(args) : k < Get(tokens, p).i}

ClaimingOps ==
    FlagOps \cup OptionOps \cup
    {"check_positional", "require_positional", "check_command", "match_command"}

\* C9: no flag, option, positional or subcommand query claims a token lexed
\* after the terminator "--" (an option standing just before the terminator
\* gets no value from beyond it), and a word a subcommand query returns was
\* claimed from a slot before the terminator.
C9_NothingBeyondTerminator ==
    [][last'.op \in ClaimingOps
        => /\ \A p \in Beyond(argv, cli.tokens) : Get(cli'.tokens, p) = Get(cli.tokens, p)
           /\ (last'.op = "match_command" /\ last'.r.k = "Ok")
              => \E p \in Occupied(cli.tokens) \ Beyond(argv, cli.tokens) :
                     /\ Get(cli.tokens, p) = UnattachedArgument(Get(cli.tokens, p).i, last'.r.v)
                     /\ Get(cli'.tokens, p) = None]_vars

\* an option stood just before the terminator and was queried; the argument
\* after the terminator is still in its slot
C9_Witness ==
    /\ last.op \in OptionOps /\ last.r.k = "Err" /\ last.r.e.kind = "ExpectingValue"
    /\ \E p \in Beyond(argv, cli.tokens) \ {0, 1} :
           /\ Get(tokenize(argv).tokens, p - 2).kind = "Switch"
           /\ Get(cli.tokens, p - 2) = None
           /\ Get(cli.tokens, p - 1).kind = "Terminator"
           /\ Get(cli.tokens, p).kind = "Ignore"

\* the arguments of the command line after its first "--"
AfterTerminator(args, tkn) == SubSeq(args, tkn.i + 3, Len(args))

\* C10: check_remainder on a stream whose terminator is followed by no
\* attached value returns the arguments after "--" in their order, empties the
\* terminator slot and every slot after it and leaves the slots before it and
\* the rest of the engine as they were; without a terminator in the stream, as
\* after a first check_remainder, it returns the empty list and changes nothing.
C10_RemainderDrained ==
    [][last'.op = "check_remainder"
        => With({p \in Slots(cli.tokens) : Get(cli.tokens, p).kind = "Terminator"},
                LAMBDA terms :
               /\ terms = {} => Ok(<<>>) = last'.r /\ cli' = cli
               /\ (last.op = "check_remainder" /\ last.r.k = "Ok") => terms = {}
               /\ (/\ terms # {}
                   /\ \A p \in Slots(cli.tokens) :
                          Get(cli.tokens, p).kind # "AttachedArgument" \/ p < MinOf(terms))
                  => /\ last'.r = Ok(AfterTerminator(argv, Get(cli.tokens, MinOf(terms))))
                     /\ \A p \in Slots(cli.tokens) :
                            Get(cli'.tokens, p) =
                                IF p < MinOf(terms) THEN Get(cli.tokens, p) ELSE None
                     /\ cli' = [cli EXCEPT !.tokens = cli'.tokens])]_vars

\* check_remainder returned the argument after "--"; the word before "--" is
\* still there
C10_Witness ==
    /\ last.op = "check_remainder" /\ last.r.k = "Ok" /\ Len(last.r.v) = 1
    /\ Get(cli.tokens, 0).kind = "UnattachedArgument"
    /\ Occupied(cli.tokens) = {0}

\* the slots still holding a flag, a switch or a bare "-"
OptionSlots(self) ==
    {p \in Slots(self.tokens) :
        Get(self.tokens, p).kind \in {"Flag", "Switch", "EmptySwitch"}}

UnattachedSlots(self) ==
    {p \in Slots(self.tokens) : Get(self.tokens, p).kind = "UnattachedArgument"}

\* the option occurring at slot p as it was written: "--name" or "-c"
Written(self, p) ==
    With(CHOOSE t \in DOMAIN self.opt_store : p \in Elems(self.opt_store[t]), LAMBDA t :
        (IF t.t = "Flag" THEN FLAG ELSE SWITCH) \o t.n)

HelpAsked(self) == self.help.some /\ self.asking_for_help

\* C4: when match_command is called while an unclaimed flag or switch stands
\* before the first unattached word left, the word is one of `words`, the
\* threshold is 0 and no help is asked for, it fails with the out-of-context
\* error naming the earliest such option and the word: also behind switch
\* bundles and attached values.
C4_MisplacedOptionRejected ==
    [][(/\ last'.op = "match_command"
        /\ ~HelpAsked(cli) /\ cli.threshold = 0
        /\ UnattachedSlots(cli) # {}
        /\ Get(cli.tokens, MinOf(UnattachedSlots(cli))).s \in Elems(Words)
        /\ \E p \in OptionSlots(cli) : p < MinOf(UnattachedSlots(cli)))
        => /\ last'.r.k = "Err"
           /\ last'.r.e.kind = "OutOfContextArgSuggest"
           /\ last'.r.e.s = Get(cli.tokens, MinOf(UnattachedSlots(cli))).s
           /\ last'.r.e.o = Written(cli, MinOf(OptionSlots(cli)))]_vars

\* C5: no query ends in a fatal fault, match_command being called only while
\* an unattached argument is left and an argument has been declared; is_empty
\* and require_positional return a result also after a failed check_remainder.
C5_NoFatalFault ==
    [][(last'.op = "match_command"
            => UnattachedSlots(cli) # {} /\ Len(cli.known_args) > 0)
        => last'.r.k # "Panic"]_vars

\* C6: while help is configured and asked for, a query that fails returns the
\* help outcome, whatever the query and the error.
C6_HelpBeforeAnyError ==
    [][(/\ HelpAsked(cli)
        /\ last'.op \notin {"help", "disable_help"}
        /\ last'.r.k = "Err")
        => last'.r.e.kind = "Help"]_vars

\* the terminator slots of a stream
TerminatorSlots(self) ==
    {p \in Slots(self.tokens) : Get(self.tokens, p).kind = "Terminator"}

\* a check_remainder has just succeeded on a command line with a terminator and
\* has left nothing in the stream
JustDrained ==
    /\ last.op = "check_remainder" /\ last.r.k = "Ok"
    /\ TerminatorArgs(argv) # {}
    /\ Occupied(cli.tokens) = {}

\* the terminator is the first token left and no attached value follows it
OnlyRemainderLeft ==
    /\ TerminatorSlots(cli) # {}
    /\ MinOf(Occupied(cli.tokens)) \in TerminatorSlots(cli)
    /\ \A p \in Slots(cli.tokens) : Get(cli.tokens, p).kind # "AttachedArgument"

\* C11: on a command line whose tokens before the terminator are all claimed
\* and whose terminator carries no attached value, is_empty right after a
\* successful check_remainder succeeds, and is_empty without check_remainder
\* fails reporting the terminator "--" as unexpected.
C11_DrainThenEmpty ==
    [][last'.op = "is_empty"
        => /\ JustDrained => last'.r = Ok(Unit)
           /\ OnlyRemainderLeft => last'.r = Err(UnexpectedArg(FLAG, cli.help))]_vars

\* C11, with the help request taken into account: the two outcomes are those
\* of C11 when no help request is pending, and the help outcome when one is.
C11_DrainThenEmptyUnlessHelp ==
    [][(last'.op = "is_empty" /\ (JustDrained \/ OnlyRemainderLeft))
        => IF HelpAsked(cli) THEN last'.r = Err(CliError_Help(cli.help))
           ELSE IF JustDrained THEN last'.r = Ok(Unit)
           ELSE last'.r = Err(UnexpectedArg(FLAG, cli.help))]_vars

\* is_empty succeeded right after check_remainder returned two arguments, the
\* number before the terminator having been claimed by a positional query
C11_Witness ==
    /\ last.op = "is_empty" /\ last.r = Ok(Unit)
    /\ argv = << <<"p", "r", "o", "g">>, <<"2">>, <<"-", "-">>, <<"2">> >>
    /\ Occupied(cli.tokens) = {}

\* the word a subcommand query is about to claim, if any
NextWord(self) == Get(self.tokens, MinOf(UnattachedSlots(self))).s

SameOutcome(x, y) ==
    /\ x.k = y.k
    /\ x.k = "Err" => x.e = y.e
    /\ x.k = "Panic" => x.msg = y.msg

SameFlag(x, y) == SameOutcome(x, y) /\ (x.k = "Ok" => x.v = y.v)

SameOptional(x, y) ==
    /\ SameOutcome(x, y)
    /\ x.k = "Ok" => x.v.some = y.v.some /\ (x.v.some => x.v.v = y.v.v)

\* the queries Q1 then Q2 on the engine give the results and leave the stream
\* and the index that Q2 then Q1 give
Commute(Q1(_), Q2(_), Same1(_, _), Same2(_, _)) ==
    With(Q1(cli), LAMBDA a : With(Q2(a.self), LAMBDA b :
    With(Q2(cli), LAMBDA d : With(Q1(d.self), LAMBDA c :
        /\ Same1(a.r, c.r)
        /\ Same2(b.r, d.r)
        /\ b.self.tokens = c.self.tokens
        /\ b.self.opt_store = c.self.opt_store))))

\* the queries for the declared arguments of the calling program
QueryV(self) == check_flag(self, V)
QueryH(self) == check_flag(self, HelpFlag)
QueryR(self) == check_option(self, R, "i32")
QueryPos(self) == check_positional(self, Pos, "i32")

NoPositionalLeft(self) ==
    \A p \in UnattachedSlots(self) : \E q \in TerminatorSlots(self) : q < p

\* the engine as require_positional sees it once the positional is on the ledger
Asked(self, p) == [self EXCEPT !.known_args = Append(@, Arg_Positional(p))]

HasAttached(self, d) ==
    \E p \in OccurrenceSlots(self, d) :
        p + 1 \in Slots(self.tokens) /\ Get(self.tokens, p + 1).kind = "AttachedArgument"

\* a help request is pending once the query for d has counted its occurrences
HelpPendingAfter(self, d) ==
    /\ self.help.some
    /\ \/ self.asking_for_help
       \/ OccurrenceSlots(self, d) # {} /\ self.help.flag.name = d.name

CountOf(self, d) == Cardinality(OccurrenceSlots(self, d))

\* C15 as stated: check_flag_all returns the number of occurrences of the flag,
\* long form plus short form, when none carries an attached value; check_flag
\* fails with DuplicateOptions exactly when that count is greater than 1 and
\* otherwise returns whether the count is 1.
C15_CountThenDuplicate ==
    [][\A f \in Flags : (last'.f = f /\ ~HasAttached(cli, f)) =>
        /\ last'.op = "check_flag_all" => last'.r = Ok(CountOf(cli, f))
        /\ last'.op = "check_flag" =>
               IF CountOf(cli, f) > 1
               THEN last'.r = Err(DuplicateOptions(Arg_Flag(f), cli.help))
               ELSE last'.r = Ok(CountOf(cli, f) = 1)]_vars

\* C15 as the code has it: the same, except that with a count greater than 1
\* check_flag returns the Help outcome when a help request is pending (help is
\* configured and its flag was raised, in this query or an earlier one).
C15_CountThenDuplicateUnlessHelp ==
    [][\A f \in Flags : (last'.f = f /\ ~HasAttached(cli, f)) =>
        /\ last'.op = "check_flag_all" => last'.r = Ok(CountOf(cli, f))
        /\ last'.op = "check_flag" =>
               IF CountOf(cli, f) > 1
               THEN IF HelpPendingAfter(cli, f)
                    THEN last'.r = Err(CliError_Help(cli.help))
                    ELSE last'.r = Err(DuplicateOptions(Arg_Flag(f), cli.help))
               ELSE last'.r = Ok(CountOf(cli, f) = 1)]_vars

\* the flag raised once in its long form and once inside a bundle
C15_Witness ==
    /\ last.op = "check_flag"
    /\ last.r = Err(DuplicateOptions(Arg_Flag(V), cli.help))
    /\ argv = << <<"p", "r", "o", "g">>, <<"-", "-", "v">>, <<"-", "h", "v", "r">> >>

\* the result of the _all query that a capped query of the same argument wraps
AllOf(self, op, d) ==
    IF op = "check_flag_n" THEN check_flag_all(self, d).r
    ELSE check_option_all(self, d, "i32").r

ArgOf(op, d) == IF op = "check_flag_n" THEN Arg_Flag(d) ELSE Arg_Optional(d)

\* C16 as stated: check_flag_n and check_option_n fail with ExceedingMaxCount
\* carrying (n, count) exactly when the number of occurrences is greater than
\* n, and return the result of the _all query when it is at most n.
C16_ExceedingIffOver ==
    [][last'.op \in {"check_flag_n", "check_option_n"} =>
        IF CountOf(cli, last'.f) > last'.n
        THEN last'.r = Err(ExceedingMaxCount(last'.n, CountOf(cli, last'.f),
                                             ArgOf(last'.op, last'.f)))
        ELSE last'.r = AllOf(cli, last'.op, last'.f)]_vars

\* C16 as the code has it: the capped queries fail with ExceedingMaxCount
\* exactly when the _all query succeeds and the number of occurrences is
\* greater than n; in every other case, a failure of the _all query with more
\* than n occurrences included, they return the result of the _all query.
C16_ExceedingIffOverAndAllSucceeds ==
    [][last'.op \in {"check_flag_n", "check_option_n"} =>
        IF CountOf(cli, last'.f) > last'.n /\ AllOf(cli, last'.op, last'.f).k = "Ok"
        THEN last'.r = Err(ExceedingMaxCount(last'.n, CountOf(cli, last'.f),
                                             ArgOf(last'.op, last'.f)))
        ELSE last'.r = AllOf(cli, last'.op, last'.f)]_vars

\* two occurrences with values against a cap of one
C16_Witness ==
    /\ last.op = "check_option_n"
    /\ last.r = Err(ExceedingMaxCount(1, 2, Arg_Optional(R)))
    /\ \E k \in 2..Len(argv) : argv[k] = <<"-", "-", "r", "=", "1">>

\* the values attached with '=' to the occurrences of the declared flag
AttachedValues(self, d) ==
    {Get(self.tokens, p + 1).s :
        p \in {q \in OccurrenceSlots(self, d) :
                  q + 1 \in Slots(self.tokens)
                  /\ Get(self.tokens, q + 1).kind = "AttachedArgument"}}

\* every unattached argument of the stream is still in its slot after the step
UnattachedKept ==
    \A p \in UnattachedSlots(cli) : Get(cli'.tokens, p) = Get(cli.tokens, p)

\* C17 as stated: a flag query never claims an unattached argument, and fails
\* with UnexpectedValue carrying the value whenever an occurrence of the flag
\* has an attached value.
C17_FlagsLeaveWordsRejectValues ==
    [][\A f \in Flags : (last'.op \in FlagOps /\ last'.f = f) =>
        /\ UnattachedKept
        /\ HasAttached(cli, f) =>
               /\ last'.r.k = "Err"
               /\ last'.r.e.kind = "UnexpectedValue"
               /\ last'.r.e.arg = Arg_Flag(f)
               /\ last'.r.e.s \in AttachedValues(cli, f)]_vars

\* C17 as the code has it: a flag query never claims an unattached argument;
\* when an occurrence of the flag has an attached value it fails with
\* UnexpectedValue carrying the value, unless a help request is pending, in
\* which case it returns the Help outcome.
C17_FlagsLeaveWordsRejectValuesUnlessHelp ==
    [][\A f \in Flags : (last'.op \in FlagOps /\ last'.f = f) =>
        /\ UnattachedKept
        /\ HasAttached(cli, f) =>
               /\ last'.r.k = "Err"
               /\ IF HelpAsked(cli)
                  THEN last'.r.e = CliError_Help(cli.help)
                  ELSE /\ last'.r.e.kind = "UnexpectedValue"
                       /\ last'.r.e.arg = Arg_Flag(f)
                       /\ last'.r.e.s \in AttachedValues(cli, f)]_vars

\* the flag raised before a word and raised with a value: the query fails on
\* the value and the word stays
C17_Witness ==
    /\ last.op \in FlagOps
    /\ last.r.k = "Err"
    /\ last.r.e = UnexpectedValue(Arg_Flag(V), <<"1">>)
    /\ argv = << <<"p", "r", "o", "g">>, <<"-", "h", "v">>, <<"a">>, <<"-", "-", "v", "=", "1">> >>
    /\ UnattachedSlots(cli) # {}

\* the slot after p holds a value, attached or unattached
ValueFollows(self, p) ==
    /\ p + 1 \in Slots(self.tokens)
    /\ Get(self.tokens, p + 1).kind \in {"AttachedArgument", "UnattachedArgument"}

\* what check_option owes for the option o, by the occurrences of o in the
\* stream; `failure` turns an error into the result returned for it
OptionOutcome(self, o, failure(_)) ==
    IF CountOf(self, o) = 0 THEN Ok(NoneV)
    ELSE IF CountOf(self, o) > 1 THEN failure(DuplicateOptions(Arg_Optional(o), self.help))
    ELSE With(CHOOSE p \in OccurrenceSlots(self, o) : TRUE, LAMBDA p :
             IF ~ValueFollows(self, p)
             THEN failure(ExpectingValue(Arg_Optional(o), self.help))
             ELSE With(Get(self.tokens, p + 1).s, LAMBDA s :
                      IF parse(s, "i32").ok THEN Ok(SomeV(parse(s, "i32").v))
                      ELSE failure(BadType(Arg_Optional(o), s, self.help))))

\* C18 as stated: check_option returns none when the option has no occurrence,
\* fails with DuplicateOptions when it has more than one, fails with
\* ExpectingValue when its single occurrence is not immediately followed by an
\* attached or unattached value, and otherwise returns the value parsed, or
\* BadType if parsing fails.
C18_OptionOutcomes ==
    [][last'.op = "check_option" =>
        SameOptional(last'.r, OptionOutcome(cli, last'.f, LAMBDA e : Err(e)))]_vars

\* C18 as the code has it: the same outcomes, except that each of the three
\* failures is replaced by the Help outcome when a help request is pending.
C18_OptionOutcomesUnlessHelp ==
    [][last'.op = "check_option" =>
        SameOptional(last'.r,
                     OptionOutcome(cli, last'.f, LAMBDA e :
                         IF HelpAsked(cli) THEN Err(CliError_Help(cli.help)) ELSE Err(e)))]_vars

\* the single occurrence of the option, closing a bundle, takes the number
\* that follows it
C18_Witness ==
    /\ last.op = "check_option"
    /\ last.r = Ok(SomeV(2))
    /\ argv = << <<"p", "r", "o", "g">>, <<"-", "h", "r">>, <<"2">> >>

\* the slots a positional query looks at: unattached arguments and terminators
Candidates(self) == UnattachedSlots(self) \cup TerminatorSlots(self)

\* the first candidate is an unattached argument
PositionalAhead(self) ==
    Candidates(self) # {} /\ MinOf(Candidates(self)) \in UnattachedSlots(self)

\* C19: a positional query claims the leftmost unclaimed unattached argument,
\* whatever unclaimed flags and switches precede it, and returns its text
\* parsed; every other slot stays as it was, so successive queries return the
\* unattached arguments left to right, each once. When the first candidate is
\* the terminator, or nothing is left, the query returns none and the stream,
\* terminator included, stays as it was.
C19_PositionalsLeftToRight ==
    [][last'.op = "check_positional" =>
        IF PositionalAhead(cli)
        THEN With(MinOf(Candidates(cli)), LAMBDA p :
                 /\ Get(cli'.tokens, p) = None
                 /\ \A q \in Slots(cli.tokens) \ {p} : Get(cli'.tokens, q) = Get(cli.tokens, q)
                 /\ Len(cli'.tokens) = Len(cli.tokens)
                 /\ parse(Get(cli.tokens, p).s, "i32").ok =>
                        SameOptional(last'.r, Ok(SomeV(parse(Get(cli.tokens, p).s, "i32").v))))
        ELSE /\ SameOptional(last'.r, Ok(NoneV))
             /\ cli'.tokens = cli.tokens]_vars

\* the first of two numbers is returned past an unclaimed switch, the second
\* is still in the stream
C19_Witness ==
    /\ last.op = "check_positional"
    /\ last.r = Ok(SomeV(2))
    /\ argv = << <<"p", "r", "o", "g">>, <<"-", "h">>, <<"2">>, <<"2">> >>
    /\ Get(cli.tokens, 0).kind = "Switch"
    /\ Get(cli.tokens, 1) = None
    /\ Get(cli.tokens, 2).kind = "UnattachedArgument"

\* a short-form bundle: '-' and then characters, none of them '-' or '='
IsBundle(arg) ==
    /\ Len(arg) >= 2
    /\ arg[1] = "-"
    /\ \A k \in 2..Len(arg) : arg[k] \notin {"-", "="}

\* the slots whose token came from the argument of original index i
SlotsOf(self, i) == {p \in Slots(self.tokens) : Get(self.tokens, p).i = i}

\* the index entries that list the slot p
TagsOf(self, p) == {t \in DOMAIN self.opt_store : p \in Elems(self.opt_store[t])}

\* after construction, each bundle of the command line is one Switch token per
\* character, in order, on consecutive slots, all with the index of the
\* argument, each listed under its own character and nowhere else
BundleLexed ==
    last.op = "tokenize" =>
        \A k \in 2..Len(argv) : IsBundle(argv[k]) =>
            With(SlotsOf(cli, k - 2), LAMBDA S :
                /\ Cardinality(S) = Len(argv[k]) - 1
                /\ \A j \in 1..(Len(argv[k]) - 1) :
                       /\ MinOf(S) + j - 1 \in S
                       /\ Get(cli.tokens, MinOf(S) + j - 1) = Token_Switch(k - 2, argv[k][j + 1])
                       /\ TagsOf(cli, MinOf(S) + j - 1) = {Tag_Switch(<<argv[k][j + 1]>>)})

\* a query for the flag or option d empties the slots of its occurrences and
\* leaves every other flag and switch in its slot and in the index
OthersQueryable ==
    \A d \in Flags \cup Options : (last'.op \in FlagOps \cup OptionOps /\ last'.f = d) =>
        /\ \A p \in OccurrenceSlots(cli, d) : Get(cli'.tokens, p) = None
        /\ \A p \in OptionSlots(cli) \ OccurrenceSlots(cli, d) :
               /\ Get(cli'.tokens, p) = Get(cli.tokens, p)
               /\ TagsOf(cli', p) = TagsOf(cli, p)

\* C20: a short-form bundle is lexed into one Switch token per character, in
\* order, with the same original argument index, on distinct consecutive
\* slots, each registered under its own character; querying one character of
\* the bundle claims only that character's slot and leaves the other switches
\* of the bundle queryable.
C20_BundleSwitchesIndependent == []BundleLexed /\ [][OthersQueryable]_vars

\* the middle switch of a bundle of three is claimed, the other two are still
\* in their slots and in the index
C20_Witness ==
    /\ last.op = "check_flag"
    /\ last.f = V
    /\ last.r = Ok(TRUE)
    /\ argv = << <<"p", "r", "o", "g">>, <<"-", "h", "v", "r">> >>
    /\ cli.tokens = <<Token_Switch(0, "h"), None, Token_Switch(0, "r")>>
    /\ TagsOf(cli, 0) = {Tag_Switch(<<"h">>)}
    /\ TagsOf(cli, 2) = {Tag_Switch(<<"r">>)}

\* the engine is as construction left it: nothing was queried yet
JustLexed == last.op = "tokenize"

\* the original indices of the arguments that stand after the first terminator
IgnoredArgs(args) ==
    IF TerminatorArgs(args) = {} THEN {}
    ELSE (MinOf(TerminatorArgs(args)) + 1)..(Len(args) - 2)

\* C21: in the lexed stream every argument after the first "--" is exactly
\* one Ignore token holding the argument's text verbatim, also when the text
\* starts with '-' or contains '='; no such argument is registered in the
\* occurrence index; at most one Terminator token exists.
C21_VerbatimAfterTerminator ==
    JustLexed =>
        /\ \A i \in IgnoredArgs(argv) :
               /\ Cardinality(SlotsOf(cli, i)) = 1
               /\ \A p \in SlotsOf(cli, i) :
                      /\ Get(cli.tokens, p).kind = "Ignore"
                      /\ Get(cli.tokens, p).s = Get(argv, i + 1)
                      /\ TagsOf(cli, p) = {}
        /\ Cardinality(TerminatorSlots(cli)) <= 1

\* a long name with a value and a second "--" stand after the terminator
C21_Witness ==
    /\ JustLexed
    /\ argv = << <<"p", "r", "o", "g">>, <<"-", "-">>, <<"-", "-", "r", "=", "1">>, <<"-", "-">> >>
    /\ Len(cli.tokens) = 3
    /\ Get(cli.tokens, 0).kind = "Terminator"
    /\ Get(cli.tokens, 1).s = <<"-", "-", "r", "=", "1">>
    /\ Get(cli.tokens, 2).s = <<"-", "-">>
    /\ DOMAIN cli.opt_store = {}

\* the argument is "--=" and then a value
IsTerminatorWithValue(arg) == starts_with(arg, FLAG \o <<"=">>)

\* right after lexing: when the first terminator of the command line is
\* written "--=value", it is a Terminator token and then an AttachedArgument
\* holding the value, and every later argument is one Ignore token
QuirkLexed ==
    (JustLexed /\ TerminatorArgs(argv) # {}) =>
        With(MinOf(TerminatorArgs(argv)), LAMBDA i :
            IsTerminatorWithValue(Get(argv, i + 1)) =>
                /\ Cardinality(SlotsOf(cli, i)) = 2
                /\ Get(cli.tokens, MinOf(SlotsOf(cli, i))).kind = "Terminator"
                /\ Get(cli.tokens, MinOf(SlotsOf(cli, i)) + 1).kind = "AttachedArgument"
                /\ Get(cli.tokens, MinOf(SlotsOf(cli, i)) + 1).i = i
                /\ Get(cli.tokens, MinOf(SlotsOf(cli, i)) + 1).s
                       = SubSeq(Get(argv, i + 1), 4, Len(Get(argv, i + 1)))
                /\ \A j \in IgnoredArgs(argv) :
                       /\ Cardinality(SlotsOf(cli, j)) = 1
                       /\ \A p \in SlotsOf(cli, j) : Get(cli.tokens, p).kind = "Ignore")

\* the slots of a terminator that an attached value follows
StuckSlots(self) ==
    {p \in TerminatorSlots(self) :
        p + 1 \in Slots(self.tokens) /\ Get(self.tokens, p + 1).kind = "AttachedArgument"}

\* check_remainder on a stream whose terminator is followed by an attached
\* value fails with UnexpectedValue carrying the value
QuirkRejected ==
    (last'.op = "check_remainder" /\ StuckSlots(cli) # {}) =>
        /\ last'.r.k = "Err"
        /\ last'.r.e.kind = "UnexpectedValue"
        /\ last'.r.e.s = Get(cli.tokens, MinOf(StuckSlots(cli)) + 1).s

\* C22: the argument "--=value" is lexed as a Terminator followed by an
\* AttachedArgument holding the value, and all later arguments become Ignore;
\* on such a stream check_remainder fails with UnexpectedValue carrying the
\* value.
C22_ValueBehindTerminator == []QuirkLexed /\ [][QuirkRejected]_vars

\* "--=1" and a word after it: check_remainder fails on the value, the word
\* after it is still in its slot
C22_Witness ==
    /\ last.op = "check_remainder"
    /\ last.r.k = "Err"
    /\ last.r.e.kind = "UnexpectedValue"
    /\ last.r.e.s = <<"1">>
    /\ argv = << <<"p", "r", "o", "g">>, <<"-", "-", "=", "1">>, <<"a">> >>
    /\ Get(cli.tokens, 2).kind = "Ignore"

\* the position of the first '=' of a text that has one
FirstEq(arg) == MinOf({k \in 1..Len(arg) : arg[k] = "="})

\* the AttachedArgument at slot p follows the option token of its own
\* argument and holds the argument's text after the first '='
AttachedInPlace(self, args, p) ==
    /\ p > 0
    /\ Get(self.tokens, p - 1).kind \in {"Flag", "Switch", "EmptySwitch", "Terminator"}
    /\ Get(self.tokens, p - 1).i = Get(self.tokens, p).i
    /\ Get(self.tokens, p - 1).kind = "Terminator"
           => IsTerminatorWithValue(Get(args, Get(self.tokens, p).i + 1))
    /\ With(Get(args, Get(self.tokens, p).i + 1), LAMBDA arg :
           /\ \E k \in 1..Len(arg) : arg[k] = "="
           /\ Get(self.tokens, p).s = SubSeq(arg, FirstEq(arg) + 1, Len(arg)))

\* C23: in every lexed stream each AttachedArgument sits in the slot right
\* after a Flag, Switch or EmptySwitch token of the same original argument
\* index (or after the Terminator, for "--=value"), its text is everything
\* after the first '=' of the argument, and an argument that does not start
\* with '-' is a single UnattachedArgument even if it contains '='.
C23_AttachedFollowsItsOption ==
    JustLexed =>
        /\ \A p \in Slots(cli.tokens) :
               Get(cli.tokens, p).kind = "AttachedArgument" => AttachedInPlace(cli, argv, p)
        /\ \A i \in 0..(Len(argv) - 2) :
               (i \notin IgnoredArgs(argv) /\ ~starts_with(Get(argv, i + 1), SWITCH)) =>
                   /\ Cardinality(SlotsOf(cli, i)) = 1
                   /\ \A p \in SlotsOf(cli, i) :
                          /\ Get(cli.tokens, p).kind = "UnattachedArgument"
                          /\ Get(cli.tokens, p).s = Get(argv, i + 1)

\* a long name with "1=2", a word with '=', a switch with a value
C23_Witness ==
    /\ JustLexed
    /\ argv = << <<"p", "r", "o", "g">>, <<"-", "-", "r", "=", "1", "=", "2">>,
                 <<"a", "=", "b">>, <<"-", "v", "=", "1">> >>
    /\ Len(cli.tokens) = 5
    /\ Get(cli.tokens, 0).kind = "Flag"
    /\ Get(cli.tokens, 1).kind = "AttachedArgument" /\ Get(cli.tokens, 1).s = <<"1", "=", "2">>
    /\ Get(cli.tokens, 2).kind = "UnattachedArgument" /\ Get(cli.tokens, 2).s = <<"a", "=", "b">>
    /\ Get(cli.tokens, 3).kind = "Switch"
    /\ Get(cli.tokens, 4).kind = "AttachedArgument" /\ Get(cli.tokens, 4).s = <<"1">>

IsPrefix(a, b) == Len(a) <= Len(b) /\ SubSeq(b, 1, Len(a)) = a

\* the error kinds built on `self.known_args.pop().unwrap()`
PoppingKinds ==
    {"BadType", "DuplicateOptions", "UnexpectedValue", "ExpectingValue",
     "MissingPositional", "UnknownSubcommand", "ExceedingMaxCount"}

\* the step ended in an error that took its descriptor off the ledger
Popped ==
    /\ last'.r.k = "Err"
    /\ last'.r.e.kind \in PoppingKinds
    /\ last'.op # "check_remainder"

Undeclared == last'.op = "match_command" /\ cli.known_args = <<>>

\* C25 as stated: match_command called while the ledger is empty ends in a
\* fatal fault instead of returning a value or an error.
C25_UndeclaredIsFatal ==
    [][Undeclared => last'.r.k = "Panic"]_vars

\* C25 as the code has it: match_command called while the ledger is empty
\* ends in a fatal fault when no unattached argument is left, and when the
\* word it claims is not in `words` and no suggestion is available (no help
\* request is pending on an empty ledger); a word that is in `words` is
\* returned, or reported with the misplaced option before it, and a near miss
\* is returned as a suggestion, without any fault.
C25_UndeclaredIsFatalOnUnknownWord ==
    [][Undeclared =>
        /\ ~HelpAsked(cli)
        /\ IF UnattachedSlots(cli) = {} THEN last'.r.k = "Panic"
           ELSE IF NextWord(cli) \in Elems(Words)
           THEN \/ last'.r = Ok(NextWord(cli))
                \/ last'.r.k = "Err" /\ last'.r.e.kind = "OutOfContextArgSuggest"
           ELSE IF suggest(cli, NextWord(cli), Words).some
           THEN last'.r.k = "Err" /\ last'.r.e.kind \in {"SuggestSubcommand", "SuggestArg"}
           ELSE last'.r = Panic("requires positional argument")]_vars

\* the word is no subcommand and nothing was declared: the fault
C25_Witness ==
    /\ last.op = "match_command"
    /\ last.r = Panic("requires positional argument")
    /\ cli.known_args = <<>>
    /\ argv = << <<"p", "r", "o", "g">>, <<"2">>, <<"a">> >>

\* the step left the stream, the index and the help state as they were and
\* appended the positional to the ledger
OnlyDeclared ==
    /\ cli'.tokens = cli.tokens
    /\ cli'.opt_store = cli.opt_store
    /\ cli'.help = cli.help
    /\ cli'.asking_for_help = cli.asking_for_help
    /\ cli'.known_args = Append(cli.known_args, Arg_Positional(Pos))

\* the step emptied the slot p, left every other slot alone, and its result
\* is about the word that was in the slot
ClaimedWordAt(p) ==
    /\ Get(cli'.tokens, p) = None
    /\ \A q \in Slots(cli.tokens) \ {p} : Get(cli'.tokens, q) = Get(cli.tokens, q)
    /\ last'.r.k \in {"Ok", "Err"}
    /\ last'.r.k = "Ok" => SameOptional(last'.r, Ok(SomeV(Get(cli.tokens, p).s)))
    /\ (last'.r.k = "Err" /\ last'.r.e.kind # "Help") => last'.r.e.s = Get(cli.tokens, p).s

\* C26: when no UnattachedArgument remains in the stream, check_command
\* returns none without error and without entering the subcommand's routine:
\* stream, index and help state are unchanged and only the positional is
\* appended to the ledger; when one remains, the match_command of the nested
\* routine finds and claims exactly the first unattached argument.
C26_CommandOnlyWhenWordLeft ==
    [][last'.op = "check_command" =>
        IF UnattachedSlots(cli) = {}
        THEN SameOptional(last'.r, Ok(NoneV)) /\ OnlyDeclared
        ELSE ClaimedWordAt(MinOf(UnattachedSlots(cli)))]_vars

\* a bundle is all that is left: check_command returns none and leaves it
C26_Witness ==
    /\ last.op = "check_command"
    /\ last.r = Ok(NoneV)
    /\ argv = << <<"p", "r", "o", "g">>, <<"-", "v", "r">>, <<"a">> >>
    /\ Get(cli.tokens, 0).kind = "Switch"
    /\ Get(cli.tokens, 1).kind = "Switch"
    /\ Get(cli.tokens, 2) = None
    /\ last_arg(cli) = Arg_Positional(Pos)

\* the step resolves a subcommand word: match_command, called directly or by
\* the routine check_command enters
Resolving ==
    last'.op \in {"match_command", "check_command"} /\ UnattachedSlots(cli) # {}

\* an unclaimed flag or switch stands before the first unattached word
Misplaced(self) == \E p \in OptionSlots(self) : p < MinOf(UnattachedSlots(self))

ErrKind(r) == IF r.k = "Err" THEN r.e.kind ELSE "none"

C28_AskingForHelpSticky ==
    [][cli.asking_for_help => cli'.asking_for_help]_vars

\* help was asked for and found, then help was disabled: the state holds
C28_Witness ==
    /\ cli.asking_for_help
    /\ last.op = "disable_help"
    /\ cli.help.some = FALSE
    /\ OccurrenceSlots(cli, HelpFlag) = {}
    /\ \E k \in 2..Len(argv) : argv[k] = <<"-", "-", "h">>

\* the help flag is raised on the command line, before the terminator
HelpRaised(args) == OccurrenceSlots(Cli_new(args, 0), HelpFlag) # {}

\* unclaimed occurrences of d are in the stream and none has an attached value
Raised(self, d) == OccurrenceSlots(self, d) # {} /\ ~HasAttached(self, d)

\* C29 as stated: if the help flag is raised on the command line and help is
\* configured at some point, the asking-for-help state is set from then on,
\* whatever flag queries were made before; a flag query made while help is
\* configured sets the state exactly when the queried flag has the help
\* flag's name and at least one occurrence was claimed.
C29_HelpFoundWhenConfigured ==
    [][/\ (last'.op = "help" /\ HelpRaised(argv)) => cli'.asking_for_help
       /\ (last'.op \in FlagOps /\ cli.help.some /\ ~cli.asking_for_help) =>
              (cli'.asking_for_help <=>
                  (last'.f.name = cli.help.flag.name /\ OccurrenceSlots(cli, last'.f) # {}))]_vars

\* C29 as the code has it: help() sets the state when occurrences of the help
\* flag are still unclaimed in the stream and none of them has an attached
\* value; occurrences claimed by a flag query made before help was configured
\* are gone and do not count. A flag query made while help is configured sets
\* the state exactly when the queried flag has the help flag's name, at least
\* one occurrence was claimed and none had an attached value; a flag query
\* made while help is not configured never sets it.
C29_HelpFoundWhenStillUnclaimed ==
    [][/\ last'.op = "help" =>
              (cli'.asking_for_help <=> (cli.asking_for_help \/ Raised(cli, HelpFlag)))
       /\ last'.op \in FlagOps =>
              (cli'.asking_for_help <=>
                  \/ cli.asking_for_help
                  \/ /\ cli.help.some
                     /\ last'.f.name = cli.help.flag.name
                     /\ Raised(cli, last'.f))]_vars

\* the help flag was raised, queried as a plain flag, and help configured
\* afterwards: the state is not set
C29_Witness ==
    /\ last.op = "help"
    /\ last.r = Ok(Unit)
    /\ cli.help.some
    /\ cli.asking_for_help = FALSE
    /\ argv = << <<"p", "r", "o", "g">>, <<"-", "-", "h">> >>
    /\ OccurrenceSlots(cli, HelpFlag) = {}

\* the spelling of an option argument: its text up to the first '=', if any
Spelling(arg) ==
    IF \E k \in 1..Len(arg) : arg[k] = "=" THEN SubSeq(arg, 1, FirstEq(arg) - 1) ELSE arg

\* the tag under which the option token at slot p belongs: the long name
\* written in its argument, the character of the switch, or the empty string
\* of a bare '-'
TagAt(self, args, p) ==
    With(Get(self.tokens, p), LAMBDA t :
        IF t.kind = "Flag"
        THEN Tag_Flag(SubSeq(Spelling(Get(args, t.i + 1)), 3, Len(Spelling(Get(args, t.i + 1)))))
        ELSE IF t.kind = "Switch" THEN Tag_Switch(t.s)
        ELSE Tag_Switch(<<>>))

StrictlyAscending(q) == \A k \in 1..(Len(q) - 1) : q[k] < q[k + 1]

\* C30: right after lexing the occurrence index maps each long name and each
\* switch character that occurs before the terminator to the strictly
\* ascending list of the slot positions of all and only its occurrences; a
\* bare '-' is registered under the switch tag with the empty string; a name
\* that never occurs has no entry.
C30_IndexListsOccurrences ==
    JustLexed =>
        /\ \A p \in OptionSlots(cli) : TagAt(cli, argv, p) \in DOMAIN cli.opt_store
        /\ \A t \in DOMAIN cli.opt_store :
               /\ Elems(cli.opt_store[t]) = {p \in OptionSlots(cli) : TagAt(cli, argv, p) = t}
               /\ cli.opt_store[t] # <<>>
               /\ StrictlyAscending(cli.opt_store[t])

\* a long name twice, each with a value, around a bare '-': the name is
\* listed at slots 0 and 3 (arguments 0 and 2), the bare '-' at slot 2
C30_Witness ==
    /\ JustLexed
    /\ argv = << <<"p", "r", "o", "g">>, <<"-", "-", "r", "=", "1">>, <<"-">>,
                 <<"-", "-", "r", "=", "1">> >>
    /\ DOMAIN cli.opt_store = {Tag_Flag(<<"r">>), Tag_Switch(<<>>)}
    /\ cli.opt_store[Tag_Flag(<<"r">>)] = <<0, 3>>
    /\ cli.opt_store[Tag_Switch(<<>>)] = <<2>>

\* every order in which the entries of a map can be iterated
Orders(S) == {f \in [1..Cardinality(S) -> S] : \A x \in S : \E k \in DOMAIN f : f[k] = x}

\* the unclaimed flag and switch occurrences below the slot b
OptionsBelow(self, b) == {p \in OptionSlots(self) : p < b}

\* C31: in every reachable state find_first_flag_left(b) returns the tag and
\* the slot of the smallest slot position below b that holds an unclaimed flag
\* or switch occurrence, and none when no unclaimed occurrence lies below b,
\* in whatever order the index is iterated.
C31_FirstFlagLeft ==
    \A b \in 0..Len(cli.tokens) : \A order \in Orders(DOMAIN cli.opt_store) :
        With(first_flag_fold(cli.opt_store, order, b, 1, NoneV), LAMBDA found :
            IF OptionsBelow(cli, b) = {}
            THEN found.some = FALSE
            ELSE /\ found.some
                 /\ found.v[2] = MinOf(OptionsBelow(cli, b))
                 /\ found.v[1] = TagAt(cli, argv, found.v[2]))

\* the help switch of a bundle is claimed: the first option left is the next
\* character of the bundle, and nothing is left below slot 1
C31_Witness ==
    /\ argv = << <<"p", "r", "o", "g">>, <<"-", "h", "v", "r">>, <<"-", "-", "v">> >>
    /\ Get(cli.tokens, 0) = None
    /\ OptionSlots(cli) = {1, 2, 3}
    /\ find_first_flag_left(cli, 3).some
    /\ find_first_flag_left(cli, 3).v = <<Tag_Switch(<<"v">>), 1>>
    /\ find_first_flag_left(cli, 1).some = FALSE

\* the option left at slot p as is_empty names it: "--name" or "-c"
Named(self, args, p) ==
    With(TagAt(self, args, p), LAMBDA t : (IF t.t = "Flag" THEN FLAG ELSE SWITCH) \o t.n)

\* C32: with threshold 0 and no help request, is_empty on a stream with an
\* unclaimed flag or switch reports as UnexpectedArg the unclaimed option at the
\* smallest slot position ("--" before a long name, "-" before a switch), even
\* when an unclaimed unattached argument stands earlier; when no option is left
\* it reports the first token left: the text of an unattached argument, or
\* "--" for the terminator.
C32_OptionsBeforeWords ==
    (last.op = "is_empty" /\ ~HelpAsked(cli) /\ cli.threshold = 0) =>
        IF OptionSlots(cli) # {}
        THEN last.r = Err(UnexpectedArg(Named(cli, argv, MinOf(OptionSlots(cli))), cli.help))
        ELSE /\ (last.r.k = "Err" /\ last.r.e.kind = "UnexpectedArg") => Occupied(cli.tokens) # {}
             /\ Occupied(cli.tokens) # {} =>
                    With(Get(cli.tokens, MinOf(Occupied(cli.tokens))), LAMBDA t :
                        /\ t.kind = "UnattachedArgument" =>
                               last.r = Err(UnexpectedArg(t.s, cli.help))
                        /\ t.kind = "Terminator" =>
                               last.r = Err(UnexpectedArg(FLAG, cli.help)))

\* a word stands before the only option left, and the option is reported
C32_Witness ==
    /\ last.op = "is_empty"
    /\ argv = << <<"p", "r", "o", "g">>, <<"a">>, <<"-", "h">>, <<"-", "-", "v">> >>
    /\ Get(cli.tokens, 0).kind = "UnattachedArgument"
    /\ OptionSlots(cli) = {2}
    /\ cli.help.some /\ ~cli.asking_for_help
    /\ last.r = Err(UnexpectedArg(<<"-", "-", "v">>, cli.help))

\* C33: match_command reports an out-of-context option only if the option it
\* names really stands before the subcommand word on the command line;
\* unclaimed options that stand only after the word never make it fail: a
\* word of `words` followed by unclaimed options is returned successfully.
C33_OnlyOptionsBeforeTheWord ==
    [][(last'.op = "match_command" /\ UnattachedSlots(cli) # {}) =>
        /\ ErrKind(last'.r) = "OutOfContextArgSuggest" =>
               /\ Misplaced(cli)
               /\ last'.r.e.o = Named(cli, argv, MinOf(OptionSlots(cli)))
        /\ (~Misplaced(cli) /\ NextWord(cli) \in Elems(Words)) =>
               last'.r = Ok(NextWord(cli))]_vars

\* the word a is returned with a bundle and a long option left after it
C33_Witness ==
    /\ last.op = "match_command" /\ last.r = Ok(<<"a">>)
    /\ argv = << <<"p", "r", "o", "g">>, <<"a">>, <<"-", "v", "r">>,
                 <<"-", "-", "r", "=", "1">> >>
    /\ Get(cli.tokens, 0) = None
    /\ OptionSlots(cli) = {1, 2, 3}

\* C34: in every reachable state the occurrence index and the token stream
\* agree: every slot position listed in the index holds a Flag, Switch or
\* EmptySwitch token, every slot holding such a token is listed under exactly
\* one tag, no entry has an empty list and no slot position is listed twice;
\* hence capture_bad_flag never meets an emptied or a non-option slot.
C34_IndexAgreesWithStream ==
    /\ \A t \in DOMAIN cli.opt_store :
           /\ cli.opt_store[t] # <<>>
           /\ Cardinality(Elems(cli.opt_store[t])) = Len(cli.opt_store[t])
           /\ Elems(cli.opt_store[t]) \subseteq OptionSlots(cli)
    /\ \A p \in OptionSlots(cli) : Cardinality(TagsOf(cli, p)) = 1
    /\ \A b \in 0..Len(cli.tokens) : capture_bad_flag(cli, b).k # "Panic"

\* the flag v is claimed in both its forms: the entries of the two other
\* switches of the bundle are left, each listing the slot of its token
C34_Witness ==
    /\ last.op \in FlagOps /\ last.f = V
    /\ argv = << <<"p", "r", "o", "g">>, <<"-", "h", "v", "r">>, <<"-", "-", "v">> >>
    /\ OptionSlots(cli) = {0, 2}
    /\ DOMAIN cli.opt_store = {Tag_Switch(<<"h">>), Tag_Switch(<<"r">>)}
    /\ cli.opt_store[Tag_Switch(<<"r">>)] = <<2>>

\* C35: in every reachable state, while the terminator slot is occupied every
\* slot after it is occupied and holds an Ignore token (or, right after the
\* terminator, the AttachedArgument of "--=value"), and every
\* UnattachedArgument lies before the terminator; hence check_remainder never
\* ends in a fatal fault, and the existence test of check_command and
\* next_uarg agree on whether a positional remains.
C35_RemainderIntact ==
    /\ \A t \in TerminatorSlots(cli) : \A p \in Slots(cli.tokens) :
           p > t => \/ Get(cli.tokens, p).kind = "Ignore"
                    \/ p = t + 1 /\ Get(cli.tokens, p).kind = "AttachedArgument"
    /\ \A p \in UnattachedSlots(cli) :
           /\ \A t \in TerminatorSlots(cli) : p < t
           /\ TerminatorArgs(argv) # {} => Get(cli.tokens, p).i < MinOf(TerminatorArgs(argv))
    /\ check_remainder(cli).r.k # "Panic"
    /\ (UnattachedSlots(cli) # {}) <=> next_uarg(cli).r.some

\* the word before the terminator is claimed; the terminator, its value and
\* the argument after it are still in their slots, and no positional remains
C35_Witness ==
    /\ argv = << <<"p", "r", "o", "g">>, <<"a">>, <<"-", "-", "=", "1">>, <<"a">> >>
    /\ last.op # "tokenize" /\ last.r.k = "Ok"
    /\ Get(cli.tokens, 0) = None
    /\ TerminatorSlots(cli) = {1}
    /\ Get(cli.tokens, 2).kind = "AttachedArgument"
    /\ Get(cli.tokens, 3).kind = "Ignore"
    /\ next_uarg(cli).r.some = FALSE

\* the arguments of the command line that are a bare '-' before the terminator
BareArgs(args) ==
    {i \in 0..(Len(args) - 2) :
        /\ Get(args, i + 1) = SWITCH
        /\ \A t \in TerminatorArgs(args) : i < t}

\* C36: a bare '-' before the terminator can never be claimed: no sequence
\* of flag, option, positional, subcommand or remainder queries empties its
\* EmptySwitch slot or removes its index entry, so is_empty never returns
\* success for a command line containing it.
C36_BareDashNeverClaimed ==
    /\ \A i \in BareArgs(argv) : \E p \in Slots(cli.tokens) :
           /\ Get(cli.tokens, p).kind = "EmptySwitch" /\ Get(cli.tokens, p).i = i
           /\ Tag_Switch(<<>>) \in DOMAIN cli.opt_store
           /\ p \in Elems(cli.opt_store[Tag_Switch(<<>>)])
    /\ (BareArgs(argv) # {} /\ last.op = "is_empty") => last.r.k = "Err"

\* the option before the bare '-' and the word after it are claimed, and
\* is_empty reports the '-', all that is left
C36_Witness ==
    /\ argv = << <<"p", "r", "o", "g">>, <<"-", "r">>, <<"-">>, <<"a">> >>
    /\ last.op = "is_empty"
    /\ last.r = Err(UnexpectedArg(SWITCH, cli.help))
    /\ Occupied(cli.tokens) = {1}
    /\ DOMAIN cli.opt_store = {Tag_Switch(<<>>)}

\* the slots of the stream where the declared flag/option f occurs, by either form
Occurrences(self, args, f) ==
    {p \in OptionSlots(self) :
        \/ TagAt(self, args, p) = Tag_Flag(f.name)
        \/ f.switch # <<>> /\ TagAt(self, args, p) = Tag_Switch(f.switch)}

\* the slots a query for f claims: its occurrences, the attached value after
\* each and, for an option, the unattached argument after each
ClaimedBy(self, args, f, with_uarg) ==
    Occurrences(self, args, f) \cup
    {p + 1 : p \in {q \in Occurrences(self, args, f) :
                      /\ q + 1 < Len(self.tokens)
                      /\ \/ Get(self.tokens, q + 1).kind = "AttachedArgument"
                         \/ with_uarg /\ Get(self.tokens, q + 1).kind = "UnattachedArgument"}}

FailureKinds ==
    {"DuplicateOptions", "UnexpectedValue", "ExpectingValue", "BadType", "ExceedingMaxCount"}

\* what is_empty reports names a token that is still in the stream
ReportsWhatIsLeft(self, args) ==
    With(is_empty(self), LAMBDA e :
        ErrKind(e) = "UnexpectedArg" =>
            \E p \in Occupied(self.tokens) :
                With(Get(self.tokens, p), LAMBDA t :
                    \/ t.kind \in {"Flag", "Switch", "EmptySwitch"} /\ e.e.s = Named(self, args, p)
                    \/ t.kind = "UnattachedArgument" /\ e.e.s = t.s
                    \/ t.kind = "Terminator" /\ e.e.s = FLAG))

\* C37: errors are not transactional. A flag or option query that fails with
\* DuplicateOptions, UnexpectedValue, ExpectingValue, BadType or
\* ExceedingMaxCount has removed every occurrence of its argument and the
\* values next to them; a failing check_positional has removed the value it
\* could not parse; a failing match_command has removed the subcommand word;
\* none of these tokens is reported later by is_empty.
C37_ErrorsStillClaim ==
    [][/\ (last'.op \in FlagOps \cup OptionOps /\ ErrKind(last'.r) \in FailureKinds) =>
            /\ \A p \in ClaimedBy(cli, argv, last'.f, last'.op \in OptionOps) :
                   Get(cli'.tokens, p) = None
            /\ DOMAIN cli'.opt_store \cap
                   {Tag_Flag(last'.f.name), Tag_Switch(last'.f.switch)} = {}
            /\ ReportsWhatIsLeft(cli', argv)
       /\ (last'.op = "check_positional" /\ ErrKind(last'.r) = "BadType") =>
            /\ UnattachedSlots(cli) # {}
            /\ last'.r.e.s = NextWord(cli)
            /\ Get(cli'.tokens, MinOf(UnattachedSlots(cli))) = None
            /\ ReportsWhatIsLeft(cli', argv)
       /\ (last'.op = "match_command" /\ last'.r.k = "Err") =>
            /\ UnattachedSlots(cli) # {}
            /\ Get(cli'.tokens, MinOf(UnattachedSlots(cli))) = None
            /\ ReportsWhatIsLeft(cli', argv)]_vars

\* check_option failed on an option given twice: both of its switches and the
\* value after the first are gone, the two flags of the bundles are left
C37_Witness ==
    /\ last.op = "check_option" /\ ErrKind(last.r) = "DuplicateOptions"
    /\ argv = << <<"p", "r", "o", "g">>, <<"-", "v", "r">>, <<"x">>, <<"-", "v", "r">> >>
    /\ Occupied(cli.tokens) = {0, 3}
    /\ is_empty(cli) = Err(UnexpectedArg(<<"-", "v">>, cli.help))
====
